---------------------------- MODULE Spec2Model ----------------------------
(***************************************************************************)
(* RapidChangeATC plugin: the macro-expansion engine (commands.js) and the *)
(* programs it emits, executed by the machine controller.                  *)
(*                                                                         *)
(* A G-code line is a record: op is the instruction (the text of the line *)
(* with its numbers taken out), n and m are its numbers, c and s its       *)
(* texts, ind the indentation formatGCode gives it.  A blank line has      *)
(* op = "".                                                                *)
(***************************************************************************)
EXTENDS Integers, Sequences, FiniteSets, TLC

(***************************************************************************)
(* Bounds of the model.                                                    *)
(***************************************************************************)
\* tool numbers 0..MaxTool (and the probe tool) are drawn as current/target tool
MaxTool == 3
\* pocket counts 1..MaxPockets are drawn
MaxPockets == 2

(***************************************************************************)
(* Program constants.                                                      *)
(***************************************************************************)
PROBE_TOOL_NUMBER == 99

(***************************************************************************)
(* JavaScript values: t is the type tag, n and h the number n + h/2 (or    *)
(* the truth value 0/1 of a boolean), s the text.  NaN and Infinity are    *)
(* the numbers that are not finite.                                        *)
(***************************************************************************)
JsUndefined == [t |-> "undefined", n |-> 0, h |-> 0, s |-> ""]
JsNull == [t |-> "null", n |-> 0, h |-> 0, s |-> ""]
JsNum(k) == [t |-> "number", n |-> k, h |-> 0, s |-> ""]
\* the number k + 0.5
JsHalf(k) == [t |-> "number", n |-> k, h |-> 1, s |-> ""]
JsStr(x) == [t |-> "string", n |-> 0, h |-> 0, s |-> x]
JsBool(b) == [t |-> "boolean", n |-> IF b THEN 1 ELSE 0, h |-> 0, s |-> ""]
JsNaN == [t |-> "NaN", n |-> 0, h |-> 0, s |-> ""]
JsInfinity == [t |-> "Infinity", n |-> 0, h |-> 0, s |-> ""]

(***************************************************************************)
(* G-code lines.                                                           *)
(***************************************************************************)
Line(op, n, m, c, s) == [op |-> op, n |-> n, m |-> m, c |-> c, s |-> s, ind |-> 0]
L0(op) == Line(op, 0, 0, "", "")
L1(op, n) == Line(op, n, 0, "", "")
L2(op, n, m) == Line(op, n, m, "", "")
Blank == L0("")
Msg(code) == Line("(MSG, PLUGIN_RAPIDCHANGEATC:)", 0, 0, code, "")

\* a template placeholder that holds the empty string leaves one blank line
OrBlank(lines) == IF lines = <<>> THEN <<Blank>> ELSE lines

\* the sensors of the catalogue: the regular expression /Aux P(\d+)/i of
\* getSensorCheckCondition matches the first two, with the port it captures
AuxPort(name) ==
  CASE name = "Aux P1" -> 1
    [] name = "aux p2" -> 2
    [] OTHER -> -1

\* a sensor check that ignores checkValue and always tests "not triggered":
\* the polarity the two zone checks depend on
getSensorCheckCondition_SamePolarity(toolSensor, checkValue, oNumber) ==
  IF AuxPort(toolSensor) # -1
    THEN << L1("M66 P L3 Q0.2", AuxPort(toolSensor)),
            Line("o IF", oNumber, 0, "[#5399 EQ -1]", "") >>
    ELSE IF toolSensor = "Probe/TLS"
           THEN << Line("o IF", oNumber, 0,
                        "[#<_probe_state> EQ 0 AND #<_toolsetter_state> EQ 0]", "") >>
           ELSE << Line("o IF", oNumber, 0, "[#<> EQ ]", toolSensor) >>

(***************************************************************************)
(* getSensorCheckCondition: the lines of a sensor check, opening block     *)
(* oNumber.  toolSensor is the text of settings.toolSensor.                *)
(***************************************************************************)
getSensorCheckCondition(toolSensor, checkValue, oNumber) ==
  IF AuxPort(toolSensor) # -1
    THEN IF checkValue = 0
           THEN << L1("M66 P L3 Q0.2", AuxPort(toolSensor)),
                   Line("o IF", oNumber, 0, "[#5399 EQ -1]", "") >>
           ELSE << L1("M66 P L3 Q0.2", AuxPort(toolSensor)),
                   Line("o IF", oNumber, 0, "[#5399 NE -1]", "") >>
    ELSE IF toolSensor = "Probe/TLS"
           THEN IF checkValue = 0
                  THEN << Line("o IF", oNumber, 0,
                               "[#<_probe_state> EQ 0 AND #<_toolsetter_state> EQ 0]", "") >>
                  ELSE << Line("o IF", oNumber, 0,
                               "[#<_probe_state> EQ 1 OR #<_toolsetter_state> EQ 1]", "") >>
           ELSE << Line("o IF", oNumber, checkValue, "[#<> EQ ]", toolSensor) >>

getSensorCheckClose(oNumber) == << L1("o ENDIF", oNumber) >>

(***************************************************************************)
(* formatGCode: blank lines dropped, then each line indented by the block  *)
(* depth at it.  The keyword tests of the code are substring tests on the  *)
(* upper-cased line; here they are tests on op.                            *)
(***************************************************************************)
isOCode(line) ==
  line.op \in {"o IF", "o ELSEIF", "o ELSE", "o ENDIF", "o WHILE", "o ENDWHILE",
               "o DO", "o REPEAT", "o ENDREPEAT", "o SUB", "o ENDSUB"}
\* includes ENDIF, ENDWHILE, ENDREPEAT, ENDSUB or ELSE
hasClosingKeyword(line) ==
  line.op \in {"o ENDIF", "o ENDWHILE", "o ENDREPEAT", "o ENDSUB", "o ELSE", "o ELSEIF"}
\* includes ' IF ', ' WHILE ', ' DO ', 'REPEAT' or ' SUB': an IF, a WHILE (the
\* one that closes a DO too), a REPEAT and a SUB line; an ENDREPEAT line,
\* which includes 'REPEAT'; not a DO line, which ends with DO once trimmed
\* and so does not include ' DO '
hasOpeningKeyword(line) ==
  line.op \in {"o IF", "o WHILE", "o REPEAT", "o ENDREPEAT", "o SUB"}
\* includes ELSE and not ELSEIF
hasElseKeyword(line) == line.op = "o ELSE"

Max(a, b) == IF a >= b THEN a ELSE b
Min(a, b) == IF a <= b THEN a ELSE b

dropBlank(lines) == SelectSeq(lines, LAMBDA l : l.op # "")

\* a closing keyword that takes one level off without the floor at zero
indentBefore_NoFloor(line, level) ==
  IF isOCode(line) /\ hasClosingKeyword(line) THEN level - 1 ELSE level

indentBefore(line, level) ==
  IF isOCode(line) /\ hasClosingKeyword(line) THEN Max(0, level - 1) ELSE level

indentAfter(line, level) ==
  LET a == indentBefore(line, level)
      b == IF isOCode(line) /\ hasOpeningKeyword(line) THEN a + 1 ELSE a
  IN  IF isOCode(line) /\ hasElseKeyword(line) THEN b + 1 ELSE b

RECURSIVE formatLines(_, _)
formatLines(lines, level) ==
  IF lines = <<>> THEN <<>>
  ELSE << [Head(lines) EXCEPT !.ind = indentBefore(Head(lines), level)] >>
       \o formatLines(Tail(lines), indentAfter(Head(lines), level))

formatGCode(gcode) == formatLines(dropBlank(gcode), 0)


(***************************************************************************)
(* The settings record the engine reads (the record buildInitialConfig     *)
(* returns, its numbers as integers).  A G-code snippet is the sequence of *)
(* its lines, <<>> the empty text.  toolSensor and tlsAuxOutput are        *)
(* JavaScript values: the engine looks at their type.                      *)
(***************************************************************************)
DefaultSettings ==
  [ pockets |-> 6, orientation |-> "Y", direction |-> "Negative",
    showMacroCommand |-> FALSE, performTlsAfterHome |-> FALSE,
    spindleAtSpeed |-> TRUE, addProbe |-> FALSE, atcStartDelay |-> 0,
    pocket1 |-> [x |-> 0, y |-> 0], toolSetter |-> [x |-> 0, y |-> 0],
    manualTool |-> [x |-> 0, y |-> 0], pocketDistance |-> 45,
    zEngagement |-> -50, zSafe |-> 0, zSpinOff |-> 23, zRetreat |-> 7,
    zProbeStart |-> -20, zone1 |-> -27, zone2 |-> -22,
    loadRpm |-> 1200, unloadRpm |-> 1500, engageFeedrate |-> 3500,
    seekDistance |-> 50, seekFeedrate |-> 500,
    toolSensor |-> JsStr("Probe/TLS"),
    probeLoadGcode |-> <<>>, probeUnloadGcode |-> <<>>,
    preToolChangeGcode |-> <<>>, postToolChangeGcode |-> <<>>,
    tlsAuxOutput |-> JsNum(-1) ]

ZeroOffsets == [x |-> 0, y |-> 0, z |-> 0]

\* a routine that zeroes the tool-length offset for the probe cycle and does
\* not set it to the measured length afterwards
createToolLengthSetRoutine_OffsetLeftZero(settings, toolOffsets) ==
  LET tlsX == settings.toolSetter.x + toolOffsets.x
      tlsY == settings.toolSetter.y + toolOffsets.y
      tlsZ == toolOffsets.z
      extraZMove == IF tlsZ # 0 THEN << L1("G91 G0 Z", tlsZ), L0("G90") >> ELSE <<>>
  IN  << L1("G53 G0 Z", settings.zSafe),
         L2("G53 G0 X Y", tlsX, tlsY),
         L1("G53 G0 Z", settings.zProbeStart) >>
      \o OrBlank(extraZMove)
      \o << L0("G43.1 Z0"),
            L2("G38.2 G91 Z- F", settings.seekDistance, settings.seekFeedrate),
            L0("G4 P0.2"),
            L0("G38.4 G91 Z5 F75"),
            L0("G91 G0 Z5"),
            L0("G90") >>
      \o << L0("#<_ofs_idx> = [#5220 * 20 + 5203]"),
            L0("#<_cur_wcs_z_ofs> = #[#<_ofs_idx>]"),
            L0("#<_nc_last_tlo> = [#5063 + #<_cur_wcs_z_ofs>]"),
            L0("(Notify ncSender that toolLengthSet is now set)"),
            L0("$#=_tool_offset") >>

(***************************************************************************)
(* createToolLengthSetRoutine: the lines of the tool-length-setter routine *)
(* (gcode.split('\n'): blank lines are still in it).                       *)
(***************************************************************************)
createToolLengthSetRoutine(settings, toolOffsets) ==
  LET tlsX == settings.toolSetter.x + toolOffsets.x
      tlsY == settings.toolSetter.y + toolOffsets.y
      tlsZ == toolOffsets.z
      extraZMove == IF tlsZ # 0 THEN << L1("G91 G0 Z", tlsZ), L0("G90") >> ELSE <<>>
      auxOutput == settings.tlsAuxOutput
      isCoolant == auxOutput.t = "string" /\ auxOutput.s \in {"M7", "M8"}
      isPin == auxOutput.t = "number" /\ auxOutput.n >= 0
      auxOn == IF isCoolant
                 THEN << L0("G4 P0"), L0(auxOutput.s), L0("G4 P0") >>
                 ELSE IF isPin
                        THEN << L0("G4 P0"), L1("M64 P", auxOutput.n), L0("G4 P0") >>
                        ELSE <<>>
      auxOff == IF isCoolant
                  THEN << L0("G4 P0"), L0("M9"), L0("G4 P0") >>
                  ELSE IF isPin
                         THEN << L0("G4 P0"), L1("M65 P", auxOutput.n), L0("G4 P0") >>
                         ELSE <<>>
  IN  << L1("G53 G0 Z", settings.zSafe),
         L2("G53 G0 X Y", tlsX, tlsY),
         L1("G53 G0 Z", settings.zProbeStart) >>
      \o OrBlank(extraZMove)
      \o OrBlank(auxOn)
      \o << L0("G43.1 Z0"),
            L2("G38.2 G91 Z- F", settings.seekDistance, settings.seekFeedrate),
            L0("G4 P0.2"),
            L0("G38.4 G91 Z5 F75"),
            L0("G91 G0 Z5"),
            L0("G90") >>
      \o OrBlank(auxOff)
      \o << L0("#<_ofs_idx> = [#5220 * 20 + 5203]"),
            L0("#<_cur_wcs_z_ofs> = #[#<_ofs_idx>]"),
            L0("#<_nc_last_tlo> = [#5063 + #<_cur_wcs_z_ofs>]"),
            L0("G43.1 Z[#<_nc_last_tlo>]"),
            L0("(Notify ncSender that toolLengthSet is now set)"),
            L0("$#=_tool_offset") >>

\* a position that counts pockets from 0 instead of from pocket 1
calculatePocketPosition_FromZero(settings, toolNum) ==
  IF toolNum <= 0
    THEN [x |-> settings.pocket1.x, y |-> settings.pocket1.y]
    ELSE LET direction == IF settings.direction = "Negative" THEN -1 ELSE 1
             offset == toolNum * settings.pocketDistance * direction
         IN  IF settings.orientation = "Y"
               THEN [x |-> settings.pocket1.x, y |-> settings.pocket1.y + offset]
               ELSE [x |-> settings.pocket1.x + offset, y |-> settings.pocket1.y]

(***************************************************************************)
(* calculatePocketPosition                                                 *)
(***************************************************************************)
calculatePocketPosition(settings, toolNum) ==
  IF toolNum <= 0
    THEN [x |-> settings.pocket1.x, y |-> settings.pocket1.y]
    ELSE LET direction == IF settings.direction = "Negative" THEN -1 ELSE 1
             offset == (toolNum - 1) * settings.pocketDistance * direction
         IN  IF settings.orientation = "Y"
               THEN [x |-> settings.pocket1.x, y |-> settings.pocket1.y + offset]
               ELSE [x |-> settings.pocket1.x + offset, y |-> settings.pocket1.y]

(***************************************************************************)
(* The tool-change sub-routines.                                           *)
(***************************************************************************)
\* a fallback routine without the programmed pause: what the pause is for
\* shows in the properties of the load
createManualToolFallback_NoPause(settings) ==
  << L1("G53 G0 Z", settings.zSafe),
     L2("G53 G0 X Y", settings.manualTool.x, settings.manualTool.y) >>

\* a fallback routine that pauses where the machine stands and moves to the
\* manual tool position only once the operator has continued
createManualToolFallback_PauseFirst(settings) ==
  << L0("M0"),
     L1("G53 G0 Z", settings.zSafe),
     L2("G53 G0 X Y", settings.manualTool.x, settings.manualTool.y) >>

createManualToolFallback(settings) ==
  << L1("G53 G0 Z", settings.zSafe),
     L2("G53 G0 X Y", settings.manualTool.x, settings.manualTool.y),
     L0("M0") >>

\* a wait for speed that is emitted whatever spindleAtSpeed says
g65p6_Always(settings) == << L0("G65P6") >>

g65p6(settings) == IF settings.spindleAtSpeed THEN <<Blank>> ELSE << L0("G65P6") >>

createToolUnload(settings) ==
  << L1("G53 G0 Z", settings.zEngagement + settings.zSpinOff) >>
  \o g65p6(settings)
  \o << L1("M4 S", settings.unloadRpm),
        L2("G53 G1 Z F", settings.zEngagement, settings.engageFeedrate),
        L2("G53 G1 Z F", settings.zEngagement + settings.zRetreat, settings.engageFeedrate) >>
  \o g65p6(settings)
  \o << L0("M5"),
        L1("G53 G0 Z", settings.zone1),
        L0("G4 P0.2") >>

createToolLoad(settings, tool) ==
  LET manualFallback == createManualToolFallback(settings)
      sensorCheckNotTriggered == getSensorCheckCondition(settings.toolSensor.s, 0, 300)
      sensorCheckTriggered == getSensorCheckCondition(settings.toolSensor.s, 1, 301)
      seat == L2("G53 G1 Z F", settings.zEngagement, settings.engageFeedrate)
      retreat == L2("G53 G1 Z F", settings.zEngagement + settings.zRetreat,
                    settings.engageFeedrate)
  IN  << L1("G53 G0 Z", settings.zEngagement + settings.zSpinOff) >>
      \o g65p6(settings)
      \o << L1("M3 S", settings.loadRpm),
            seat, retreat, seat, retreat, seat, retreat >>
      \o g65p6(settings)
      \o << L0("M5"),
            L1("G53 G0 Z", settings.zone1),
            L0("G4 P0.2") >>
      \o sensorCheckNotTriggered
      \o << L0("G4 P0"), Msg("FAILED_LOAD_TOOL") >>
      \o manualFallback
      \o << L1("o ELSE", 300),
            L1("G53 G0 Z", settings.zone2),
            L0("G4 P0.2") >>
      \o sensorCheckTriggered
      \o << L0("G4 P0"), Msg("FAILED_LOAD_TOOL") >>
      \o manualFallback
      \o getSensorCheckClose(301)
      \o getSensorCheckClose(300)
      \o << L1("M61 Q", tool) >>

\* an unload section that retries once more inside block 101: what the
\* single-retry cap excludes
buildUnloadTool_ThirdRun(settings, currentTool, sourcePos) ==
  IF currentTool = 0 THEN <<>>
  ELSE IF currentTool = PROBE_TOOL_NUMBER
    THEN IF settings.probeUnloadGcode # <<>>
           THEN << L1("(Unload Probe Tool T)", PROBE_TOOL_NUMBER),
                   L1("G53 G0 Z", settings.zSafe) >>
                \o settings.probeUnloadGcode
                \o << L1("M61 Q", 0) >>
           ELSE << L1("G53 G0 Z", settings.zSafe),
                   L0("G4 P0"),
                   Msg("MANUAL_UNLOAD_PROBE") >>
                \o createManualToolFallback(settings)
                \o << L1("M61 Q", 0) >>
  ELSE IF currentTool > settings.pockets
    THEN << L1("G53 G0 Z", settings.zSafe),
            L0("G4 P0"),
            Msg("MANUAL_UNLOAD_TOOL") >>
         \o createManualToolFallback(settings)
         \o << L1("M61 Q", 0) >>
    ELSE << L1("G53 G0 Z", settings.zSafe),
            L2("G53 G0 X Y", sourcePos.x, sourcePos.y) >>
         \o createToolUnload(settings)
         \o getSensorCheckCondition(settings.toolSensor.s, 1, 100)
         \o createToolUnload(settings)
         \o getSensorCheckCondition(settings.toolSensor.s, 1, 101)
         \o createToolUnload(settings)
         \o << L0("G4 P0"), Msg("FAILED_UNLOAD_TOOL") >>
         \o createManualToolFallback(settings)
         \o getSensorCheckClose(101)
         \o getSensorCheckClose(100)
         \o << L1("M61 Q", 0) >>

buildUnloadTool(settings, currentTool, sourcePos) ==
  IF currentTool = 0 THEN <<>>
  ELSE IF currentTool = PROBE_TOOL_NUMBER
    THEN IF settings.probeUnloadGcode # <<>>
           THEN << L1("(Unload Probe Tool T)", PROBE_TOOL_NUMBER),
                   L1("G53 G0 Z", settings.zSafe) >>
                \o settings.probeUnloadGcode
                \o << L1("M61 Q", 0) >>
           ELSE << L1("G53 G0 Z", settings.zSafe),
                   L0("G4 P0"),
                   Msg("MANUAL_UNLOAD_PROBE") >>
                \o createManualToolFallback(settings)
                \o << L1("M61 Q", 0) >>
  ELSE IF currentTool > settings.pockets
    THEN << L1("G53 G0 Z", settings.zSafe),
            L0("G4 P0"),
            Msg("MANUAL_UNLOAD_TOOL") >>
         \o createManualToolFallback(settings)
         \o << L1("M61 Q", 0) >>
    ELSE << L1("G53 G0 Z", settings.zSafe),
            L2("G53 G0 X Y", sourcePos.x, sourcePos.y) >>
         \o createToolUnload(settings)
         \o getSensorCheckCondition(settings.toolSensor.s, 1, 100)
         \o createToolUnload(settings)
         \o getSensorCheckCondition(settings.toolSensor.s, 1, 101)
         \o << L0("G4 P0"), Msg("FAILED_UNLOAD_TOOL") >>
         \o createManualToolFallback(settings)
         \o getSensorCheckClose(101)
         \o getSensorCheckClose(100)
         \o << L1("M61 Q", 0) >>

\* a load section without the test for tool 0
buildLoadTool_NoZeroCheck(settings, toolNumber, targetPos, tlsRoutine) ==
  IF toolNumber = PROBE_TOOL_NUMBER
    THEN IF settings.probeLoadGcode # <<>>
           THEN << L1("(Load Probe Tool T)", PROBE_TOOL_NUMBER),
                   L1("G53 G0 Z", settings.zSafe),
                   L1("M61 Q", PROBE_TOOL_NUMBER) >>
                \o settings.probeLoadGcode
                \o tlsRoutine
           ELSE << L1("G53 G0 Z", settings.zSafe),
                   L0("G4 P0"),
                   Msg("MANUAL_LOAD_PROBE") >>
                \o createManualToolFallback(settings)
                \o << L1("M61 Q", PROBE_TOOL_NUMBER) >>
                \o tlsRoutine
  ELSE IF toolNumber <= settings.pockets
    THEN << L1("G53 G0 Z", settings.zSafe),
            L2("G53 G0 X Y", targetPos.x, targetPos.y) >>
         \o createToolLoad(settings, toolNumber)
         \o tlsRoutine
    ELSE << L1("G53 G0 Z", settings.zSafe),
            L0("G4 P0"),
            Msg("MANUAL_LOAD_TOOL") >>
         \o createManualToolFallback(settings)
         \o << L1("M61 Q", toolNumber) >>
         \o tlsRoutine

\* a load section that takes every tool but the probe for a tool of the
\* magazine
buildLoadTool_NoManualRoute(settings, toolNumber, targetPos, tlsRoutine) ==
  IF toolNumber = 0 THEN <<>>
  ELSE IF toolNumber = PROBE_TOOL_NUMBER
    THEN IF settings.probeLoadGcode # <<>>
           THEN << L1("(Load Probe Tool T)", PROBE_TOOL_NUMBER),
                   L1("G53 G0 Z", settings.zSafe),
                   L1("M61 Q", PROBE_TOOL_NUMBER) >>
                \o settings.probeLoadGcode
                \o tlsRoutine
           ELSE << L1("G53 G0 Z", settings.zSafe),
                   L0("G4 P0"),
                   Msg("MANUAL_LOAD_PROBE") >>
                \o createManualToolFallback(settings)
                \o << L1("M61 Q", PROBE_TOOL_NUMBER) >>
                \o tlsRoutine
  ELSE << L1("G53 G0 Z", settings.zSafe),
          L2("G53 G0 X Y", targetPos.x, targetPos.y) >>
       \o createToolLoad(settings, toolNumber)
       \o tlsRoutine

\* a load section that uses the probe snippet only when addProbe is set
buildLoadTool_ProbeNeedsFlag(settings, toolNumber, targetPos, tlsRoutine) ==
  IF toolNumber = 0 THEN <<>>
  ELSE IF toolNumber = PROBE_TOOL_NUMBER
    THEN IF settings.probeLoadGcode # <<>> /\ settings.addProbe
           THEN << L1("(Load Probe Tool T)", PROBE_TOOL_NUMBER),
                   L1("G53 G0 Z", settings.zSafe),
                   L1("M61 Q", PROBE_TOOL_NUMBER) >>
                \o settings.probeLoadGcode
                \o tlsRoutine
           ELSE << L1("G53 G0 Z", settings.zSafe),
                   L0("G4 P0"),
                   Msg("MANUAL_LOAD_PROBE") >>
                \o createManualToolFallback(settings)
                \o << L1("M61 Q", PROBE_TOOL_NUMBER) >>
                \o tlsRoutine
  ELSE IF toolNumber <= settings.pockets
    THEN << L1("G53 G0 Z", settings.zSafe),
            L2("G53 G0 X Y", targetPos.x, targetPos.y) >>
         \o createToolLoad(settings, toolNumber)
         \o tlsRoutine
    ELSE << L1("G53 G0 Z", settings.zSafe),
            L0("G4 P0"),
            Msg("MANUAL_LOAD_TOOL") >>
         \o createManualToolFallback(settings)
         \o << L1("M61 Q", toolNumber) >>
         \o tlsRoutine

buildLoadTool(settings, toolNumber, targetPos, tlsRoutine) ==
  IF toolNumber = 0 THEN <<>>
  ELSE IF toolNumber = PROBE_TOOL_NUMBER
    THEN IF settings.probeLoadGcode # <<>>
           THEN << L1("(Load Probe Tool T)", PROBE_TOOL_NUMBER),
                   L1("G53 G0 Z", settings.zSafe),
                   L1("M61 Q", PROBE_TOOL_NUMBER) >>
                \o settings.probeLoadGcode
                \o tlsRoutine
           ELSE << L1("G53 G0 Z", settings.zSafe),
                   L0("G4 P0"),
                   Msg("MANUAL_LOAD_PROBE") >>
                \o createManualToolFallback(settings)
                \o << L1("M61 Q", PROBE_TOOL_NUMBER) >>
                \o tlsRoutine
  ELSE IF toolNumber <= settings.pockets
    THEN << L1("G53 G0 Z", settings.zSafe),
            L2("G53 G0 X Y", targetPos.x, targetPos.y) >>
         \o createToolLoad(settings, toolNumber)
         \o tlsRoutine
    ELSE << L1("G53 G0 Z", settings.zSafe),
            L0("G4 P0"),
            Msg("MANUAL_LOAD_TOOL") >>
         \o createManualToolFallback(settings)
         \o << L1("M61 Q", toolNumber) >>
         \o tlsRoutine

\* a program with the load section put before the unload section
buildToolChangeProgram_LoadFirst(settings, currentTool, toolNumber, toolOffsets) ==
  LET sourcePos == calculatePocketPosition(settings, currentTool)
      targetPos == calculatePocketPosition(settings, toolNumber)
      tlsRoutine == createToolLengthSetRoutine(settings, toolOffsets)
      atcStartDelaySection ==
        IF settings.atcStartDelay > 0 THEN << L1("G4 P", settings.atcStartDelay) >> ELSE <<>>
      unloadSection == buildUnloadTool(settings, currentTool, sourcePos)
      loadSection == buildLoadTool(settings, toolNumber, targetPos, tlsRoutine)
  IN  formatGCode(
        << L0("(Start of RapidChangeATC Plugin Sequence)") >>
        \o OrBlank(settings.preToolChangeGcode)
        \o << L0("#<return_units> = [20 + #<_metric>]"),
              L0("G21"),
              L0("M5") >>
        \o OrBlank(atcStartDelaySection)
        \o OrBlank(loadSection)
        \o OrBlank(unloadSection)
        \o << L1("G53 G0 Z", settings.zSafe),
              L0("G4 P0"),
              L0("G[#<return_units>]") >>
        \o OrBlank(settings.postToolChangeGcode)
        \o << L0("(End of RapidChangeATC Plugin Sequence)") >>)

buildToolChangeProgram(settings, currentTool, toolNumber, toolOffsets) ==
  LET sourcePos == calculatePocketPosition(settings, currentTool)
      targetPos == calculatePocketPosition(settings, toolNumber)
      tlsRoutine == createToolLengthSetRoutine(settings, toolOffsets)
      atcStartDelaySection ==
        IF settings.atcStartDelay > 0 THEN << L1("G4 P", settings.atcStartDelay) >> ELSE <<>>
      unloadSection == buildUnloadTool(settings, currentTool, sourcePos)
      loadSection == buildLoadTool(settings, toolNumber, targetPos, tlsRoutine)
  IN  formatGCode(
        << L0("(Start of RapidChangeATC Plugin Sequence)") >>
        \o OrBlank(settings.preToolChangeGcode)
        \o << L0("#<return_units> = [20 + #<_metric>]"),
              L0("G21"),
              L0("M5") >>
        \o OrBlank(atcStartDelaySection)
        \o OrBlank(unloadSection)
        \o OrBlank(loadSection)
        \o << L1("G53 G0 Z", settings.zSafe),
              L0("G4 P0"),
              L0("G[#<return_units>]") >>
        \o OrBlank(settings.postToolChangeGcode)
        \o << L0("(End of RapidChangeATC Plugin Sequence)") >>)

(***************************************************************************)
(* Command texts.  The text of a command is a line; trim() and             *)
(* toUpperCase() are tables on op (a line without surrounding blanks or    *)
(* lower-case letters is left as it is).                                   *)
(***************************************************************************)
trimOp(op) ==
  CASE op = " $h " -> "$h"
    [] op = " $tls " -> "$tls"
    [] OTHER -> op
toUpperCaseOp(op) ==
  CASE op = "$h" -> "$H"
    [] op = "$tls" -> "$TLS"
    [] op = " $h " -> " $H "
    [] op = " $tls " -> " $TLS "
    [] OTHER -> op
trim(line) == [line EXCEPT !.op = trimOp(line.op), !.ind = 0]
\* cmd.command.trim().toUpperCase() === token
isToken(line, token) == toUpperCaseOp(trimOp(line.op)) = token /\ line.n = 0 /\ line.m = 0

\* a value of a command entry's command or displayCommand field
TextVal(line) == [t |-> "string", text |-> line]
NullVal == [t |-> "null", text |-> Blank]
UndefinedVal == [t |-> "undefined", text |-> Blank]

(***************************************************************************)
(* parseM6Command: M6_PATTERN matches "M6 T<n>", "T<n> M6" and the forms   *)
(* with leading zeros, capturing the tool number, and a bare "M6",         *)
(* capturing none; a comment line and a value that is not text give null.  *)
(* toolNumber -1 stands for null.                                          *)
(***************************************************************************)
isGcodeComment(line) == line.op \in {"(M6 T)", "; M6 T"}

parseM6Command(command) ==
  IF command.t # "string" THEN [matched |-> FALSE, toolNumber |-> -1]
  ELSE IF isGcodeComment(command.text) THEN [matched |-> FALSE, toolNumber |-> -1]
  ELSE IF command.text.op \in {"M6 T", "T M6", "m06 t0"}
         THEN [matched |-> TRUE, toolNumber |-> command.text.n]
  ELSE IF command.text.op = "M6" THEN [matched |-> TRUE, toolNumber |-> -1]
  ELSE [matched |-> FALSE, toolNumber |-> -1]

(***************************************************************************)
(* getToolOffsets: the offsets of a tool in the pre-fetched table.  tools  *)
(* is [isArray, rows]; a row is [isNull, toolNumber, hasOffsets, offsets]. *)
(* The result is [threw, offsets]: reading toolNumber of a null row raises *)
(* a TypeError.                                                            *)
(***************************************************************************)
getToolOffsets(toolNumber, tools) ==
  IF toolNumber <= 0 \/ ~tools.isArray
    THEN [threw |-> FALSE, offsets |-> ZeroOffsets]
    ELSE LET hits == {i \in 1..Len(tools.rows) :
                        ~tools.rows[i].isNull /\ tools.rows[i].toolNumber = toolNumber}
             nulls == {i \in 1..Len(tools.rows) : tools.rows[i].isNull}
             found == IF hits = {} THEN 0 ELSE CHOOSE i \in hits : \A j \in hits : i <= j
         IN  IF \E i \in nulls : found = 0 \/ i < found
               THEN [threw |-> TRUE, offsets |-> ZeroOffsets]
               ELSE IF found # 0 /\ tools.rows[found].hasOffsets
                      THEN [threw |-> FALSE, offsets |-> tools.rows[found].offsets]
                      ELSE [threw |-> FALSE, offsets |-> ZeroOffsets]

\* context.machineState?.tool ?? 0
contextTool(context) == IF context.hasMachineState THEN context.tool ELSE 0

(***************************************************************************)
(* The command handlers.  A command entry is                               *)
(*   [command, displayCommand, isOriginal, meta, src]                      *)
(* with meta "none" (no meta field), "{}" or "{silent}"; src is not a      *)
(* field of the code's entries: it is the index, in the list the caller    *)
(* gave, of the entry this one is or was expanded from.                    *)
(* A handler works on the caller's array in place; its result here is      *)
(* [threw, list]: the array as the handler leaves it, and whether it       *)
(* raised an exception.                                                    *)
(***************************************************************************)
\* a match that does not look at isOriginal
isTokenEntry_AnyOrigin(cmd, token) ==
  cmd.command.t = "string" /\ isToken(cmd.command.text, token)

\* commands.findIndex(cmd => cmd.isOriginal && cmd.command.trim().toUpperCase() === token)
\* is the first match (0: none); it throws on an original entry before it
\* whose command is not text
isTokenEntry(cmd, token) ==
  cmd.isOriginal /\ cmd.command.t = "string" /\ isToken(cmd.command.text, token)
findToken(commands, token) ==
  LET hits == {i \in 1..Len(commands) : isTokenEntry(commands[i], token)}
  IN  IF hits = {} THEN 0 ELSE CHOOSE i \in hits : \A j \in hits : i <= j
findTokenThrows(commands, token) ==
  LET at == findToken(commands, token)
  IN  \E j \in 1..Len(commands) :
        /\ commands[j].isOriginal
        /\ commands[j].command.t # "string"
        /\ (at = 0 \/ j < at)

\* an expansion that shows the trigger text on every entry and silences none
expandedCommands_AllShown(program, trigger, showMacroCommand) ==
  [ index \in 1..Len(program) |->
      [ command |-> TextVal(program[index]),
        displayCommand |-> IF showMacroCommand THEN NullVal
                           ELSE TextVal(trim(trigger.command.text)),
        isOriginal |-> FALSE,
        meta |-> "none",
        src |-> trigger.src ] ]

\* program.map((line, index) => ...): the entries of an expansion
expandedCommands(program, trigger, showMacroCommand) ==
  [ index \in 1..Len(program) |->
      IF index = 1
        THEN [ command |-> TextVal(program[index]),
               displayCommand |-> IF showMacroCommand THEN NullVal
                                  ELSE TextVal(trim(trigger.command.text)),
               isOriginal |-> FALSE,
               meta |-> "none",
               src |-> trigger.src ]
        ELSE [ command |-> TextVal(program[index]),
               displayCommand |-> NullVal,
               isOriginal |-> FALSE,
               meta |-> IF showMacroCommand THEN "{}" ELSE "{silent}",
               src |-> trigger.src ] ]

\* a splice that removes two entries: the entry after the trigger is lost
splice_TwoRemoved(commands, at, expanded) ==
  SubSeq(commands, 1, at - 1) \o expanded \o SubSeq(commands, at + 2, Len(commands))

\* commands.splice(at, 1, ...expanded)
splice(commands, at, expanded) ==
  SubSeq(commands, 1, at - 1) \o expanded \o SubSeq(commands, at + 1, Len(commands))

createToolLengthSetProgram(settings, toolOffsets) ==
  formatGCode(
    << L0("(Start of Tool Length Setter)") >>
    \o OrBlank(settings.preToolChangeGcode)
    \o << L0("#<return_units> = [20 + #<_metric>]"),
          L0("G21") >>
    \o createToolLengthSetRoutine(settings, toolOffsets)
    \o << L1("G53 G0 Z", settings.zSafe),
          L0("G4 P0"),
          L0("G[#<return_units>]") >>
    \o OrBlank(settings.postToolChangeGcode)
    \o << L0("(End of Tool Length Setter)") >>)

handleTLSCommand(commands, context, settings) ==
  LET tlsIndex == findToken(commands, "$TLS")
      toolOffsets == getToolOffsets(contextTool(context), context.tools)
  IN  IF findTokenThrows(commands, "$TLS") THEN [threw |-> TRUE, list |-> commands]
      ELSE IF tlsIndex = 0 THEN [threw |-> FALSE, list |-> commands]
      ELSE IF toolOffsets.threw THEN [threw |-> TRUE, list |-> commands]
      ELSE [threw |-> FALSE,
            list |-> splice(commands, tlsIndex,
                       expandedCommands(
                         createToolLengthSetProgram(settings, toolOffsets.offsets),
                         commands[tlsIndex], settings.showMacroCommand))]

\* a home program with the tool-length-setter routine after the guard block
homeProgram_UnguardedRoutine(settings, toolOffsets) ==
  formatGCode(
    << L0("$H"),
       L0("#<return_units> = [20 + #<_metric>]"),
       Line("o IF", 100, 0, "[[#<_tool_offset> EQ 0] AND [#<_current_tool> NE 0]]", "") >>
    \o OrBlank(settings.preToolChangeGcode)
    \o << L0("G21") >>
    \o << L1("G53 G0 Z", settings.zSafe),
          L0("G4 P0"),
          L0("G53 G0 X0 Y0") >>
    \o OrBlank(settings.postToolChangeGcode)
    \o << L1("o ENDIF", 100) >>
    \o createToolLengthSetRoutine(settings, toolOffsets)
    \o << L0("G[#<return_units>]") >>)

homeProgram(settings, toolOffsets) ==
  formatGCode(
    << L0("$H"),
       L0("#<return_units> = [20 + #<_metric>]"),
       Line("o IF", 100, 0, "[[#<_tool_offset> EQ 0] AND [#<_current_tool> NE 0]]", "") >>
    \o OrBlank(settings.preToolChangeGcode)
    \o << L0("G21") >>
    \o createToolLengthSetRoutine(settings, toolOffsets)
    \o << L1("G53 G0 Z", settings.zSafe),
          L0("G4 P0"),
          L0("G53 G0 X0 Y0") >>
    \o OrBlank(settings.postToolChangeGcode)
    \o << L1("o ENDIF", 100),
          L0("G[#<return_units>]") >>)

handleHomeCommand(commands, context, settings) ==
  LET homeIndex == findToken(commands, "$H")
      toolOffsets == getToolOffsets(contextTool(context), context.tools)
  IN  IF findTokenThrows(commands, "$H") THEN [threw |-> TRUE, list |-> commands]
      ELSE IF homeIndex = 0 THEN [threw |-> FALSE, list |-> commands]
      ELSE IF ~settings.performTlsAfterHome THEN [threw |-> FALSE, list |-> commands]
      ELSE IF toolOffsets.threw THEN [threw |-> TRUE, list |-> commands]
      ELSE [threw |-> FALSE,
            list |-> splice(commands, homeIndex,
                       expandedCommands(homeProgram(settings, toolOffsets.offsets),
                                        commands[homeIndex], settings.showMacroCommand))]

pocket1Program(settings) ==
  formatGCode(<< L1("G53 G21 G90 G0 Z", settings.zSafe),
                 L2("G53 G21 G90 G0 X Y", settings.pocket1.x, settings.pocket1.y) >>)

handlePocket1Command(commands, settings) ==
  LET pocket1Index == findToken(commands, "$POCKET1")
  IN  IF findTokenThrows(commands, "$POCKET1") THEN [threw |-> TRUE, list |-> commands]
      ELSE IF pocket1Index = 0 THEN [threw |-> FALSE, list |-> commands]
      ELSE [threw |-> FALSE,
            list |-> splice(commands, pocket1Index,
                       expandedCommands(pocket1Program(settings),
                                        commands[pocket1Index], settings.showMacroCommand))]

\* the first original entry that parses as an M6 with a tool number (0: none)
isM6Entry(cmd) ==
  /\ cmd.isOriginal
  /\ parseM6Command(cmd.command).matched
  /\ parseM6Command(cmd.command).toolNumber # -1
\* a search that takes the last match
findM6_Last(commands) ==
  LET hits == {i \in 1..Len(commands) : isM6Entry(commands[i])}
  IN  IF hits = {} THEN 0 ELSE CHOOSE i \in hits : \A j \in hits : i >= j

findM6(commands) ==
  LET hits == {i \in 1..Len(commands) : isM6Entry(commands[i])}
  IN  IF hits = {} THEN 0 ELSE CHOOSE i \in hits : \A j \in hits : i <= j

\* getSensorCheckCondition calls toolSensor.match: a TypeError when
\* settings.toolSensor is not text.  It is called for a tool of the magazine.
usesSensorCheck(settings, tool) ==
  tool # 0 /\ tool # PROBE_TOOL_NUMBER /\ tool <= settings.pockets
buildToolChangeProgramThrows(settings, currentTool, toolNumber) ==
  /\ settings.toolSensor.t # "string"
  /\ usesSensorCheck(settings, currentTool) \/ usesSensorCheck(settings, toolNumber)

\* a handler that leaves an M6 for the tool already loaded as it is
handleM6Command_SkipSameTool(commands, context, settings) ==
  LET m6Index == findM6(commands)
      toolNumber == parseM6Command(commands[m6Index].command).toolNumber
      currentTool == contextTool(context)
      toolOffsets == getToolOffsets(toolNumber, context.tools)
  IN  IF m6Index = 0 THEN [threw |-> FALSE, list |-> commands]
      ELSE IF toolNumber = currentTool THEN [threw |-> FALSE, list |-> commands]
      ELSE IF toolOffsets.threw THEN [threw |-> TRUE, list |-> commands]
      ELSE IF buildToolChangeProgramThrows(settings, currentTool, toolNumber)
        THEN [threw |-> TRUE, list |-> commands]
      ELSE [threw |-> FALSE,
            list |-> splice(commands, m6Index,
                       expandedCommands(
                         buildToolChangeProgram(settings, currentTool, toolNumber,
                                                toolOffsets.offsets),
                         commands[m6Index], settings.showMacroCommand))]

handleM6Command(commands, context, settings) ==
  LET m6Index == findM6(commands)
      toolNumber == parseM6Command(commands[m6Index].command).toolNumber
      currentTool == contextTool(context)
      toolOffsets == getToolOffsets(toolNumber, context.tools)
  IN  IF m6Index = 0 THEN [threw |-> FALSE, list |-> commands]
      ELSE IF toolOffsets.threw THEN [threw |-> TRUE, list |-> commands]
      ELSE IF buildToolChangeProgramThrows(settings, currentTool, toolNumber)
        THEN [threw |-> TRUE, list |-> commands]
      ELSE [threw |-> FALSE,
            list |-> splice(commands, m6Index,
                       expandedCommands(
                         buildToolChangeProgram(settings, currentTool, toolNumber,
                                                toolOffsets.offsets),
                         commands[m6Index], settings.showMacroCommand))]

(***************************************************************************)
(* onBeforeCommand: the four handlers in their fixed order, each on the    *)
(* array the one before left; an exception ends the call.                  *)
(***************************************************************************)
onBeforeCommand(commands, context, settings) ==
  LET afterHome == handleHomeCommand(commands, context, settings)
      afterTLS == IF afterHome.threw THEN afterHome
                  ELSE handleTLSCommand(afterHome.list, context, settings)
      afterPocket1 == IF afterTLS.threw THEN afterTLS
                      ELSE handlePocket1Command(afterTLS.list, settings)
  IN  IF afterPocket1.threw THEN afterPocket1
      ELSE handleM6Command(afterPocket1.list, context, settings)

(***************************************************************************)
(* The settings normalizer.  A raw configuration is [t, fields]: t its     *)
(* type ("undefined": no argument, "null", "object", or a primitive's) and *)
(* fields its fields, a field the object does not have being undefined.    *)
(* A position field is [t, x, y].  The result of buildInitialConfig is     *)
(* [threw, value]: whether it raised a TypeError, and the record returned. *)
(***************************************************************************)
ALLOWED_COLLET_SIZES == {"ER11", "ER16", "ER20", "ER25", "ER32"}
ALLOWED_MODELS == {"Basic", "Pro", "Premium"}
ORIENTATIONS == {"X", "Y"}
DIRECTIONS == {"Positive", "Negative"}

NoCoords == [t |-> "undefined", x |-> JsUndefined, y |-> JsUndefined]
NullCoords == [t |-> "null", x |-> JsUndefined, y |-> JsUndefined]
Coords(x, y) == [t |-> "object", x |-> x, y |-> y]

\* the fields of an object that has none
NoFields ==
  [ colletSize |-> JsUndefined,
    model |-> JsUndefined,
    trip |-> JsUndefined,
    modelName |-> JsUndefined,
    machineModel |-> JsUndefined,
    loadRpm |-> JsUndefined,
    unloadRpm |-> JsUndefined,
    spindleAtSpeed |-> JsUndefined,
    zRetreat |-> JsUndefined,
    pockets |-> JsUndefined,
    orientation |-> JsUndefined,
    direction |-> JsUndefined,
    showMacroCommand |-> JsUndefined,
    performTlsAfterHome |-> JsUndefined,
    addProbe |-> JsUndefined,
    atcStartDelay |-> JsUndefined,
    spindleDelay |-> JsUndefined,
    pocketDistance |-> JsUndefined,
    zEngagement |-> JsUndefined,
    zSafe |-> JsUndefined,
    zSpinOff |-> JsUndefined,
    zProbeStart |-> JsUndefined,
    zone1 |-> JsUndefined,
    zone2 |-> JsUndefined,
    engageFeedrate |-> JsUndefined,
    seekDistance |-> JsUndefined,
    seekFeedrate |-> JsUndefined,
    toolSensor |-> JsUndefined,
    probeLoadGcode |-> JsUndefined,
    probeUnloadGcode |-> JsUndefined,
    preToolChangeGcode |-> JsUndefined,
    postToolChangeGcode |-> JsUndefined,
    abortEventGcode |-> JsUndefined,
    tlsAuxOutput |-> JsUndefined,
    pocket1 |-> NoCoords,
    toolSetter |-> NoCoords,
    manualTool |-> NoCoords ]

\* a ?? b
Coalesce(a, b) == IF a.t \in {"undefined", "null"} THEN b ELSE a
\* !!a
truthy(a) ==
  CASE a.t = "boolean" -> a.n = 1
    [] a.t = "number" -> a.n # 0 \/ a.h # 0
    [] a.t = "string" -> a.s # ""
    [] a.t = "Infinity" -> TRUE
    [] OTHER -> FALSE

\* Number.parseFloat and Number.parseInt(_, 10) on the texts of the model:
\* the longest numeric prefix, NaN when there is none
parseFloatText(s) ==
  CASE s = "6" -> JsNum(6)
    [] s = "12abc" -> JsNum(12)
    [] s = "7.5" -> JsHalf(7)
    [] s = "-3" -> JsNum(-3)
    [] s = "Infinity" -> JsInfinity
    [] OTHER -> JsNaN
parseIntText(s) ==
  CASE s = "6" -> JsNum(6)
    [] s = "12abc" -> JsNum(12)
    [] s = "7.5" -> JsNum(7)
    [] s = "-3" -> JsNum(-3)
    [] OTHER -> JsNaN
parseFloat(value) ==
  CASE value.t = "number" -> value
    [] value.t = "string" -> parseFloatText(value.s)
    [] value.t = "Infinity" -> JsInfinity
    [] OTHER -> JsNaN
\* a number is truncated towards zero
parseInt(value) ==
  CASE value.t = "number" ->
         JsNum(IF value.n < 0 /\ value.h = 1 THEN value.n + 1 ELSE value.n)
    [] value.t = "string" -> parseIntText(value.s)
    [] OTHER -> JsNaN
isFinite(value) == value.t = "number"

clampPockets(value) ==
  LET parsed == parseInt(value)
  IN  IF ~isFinite(parsed) THEN JsNum(6) ELSE JsNum(Min(Max(parsed.n, 1), 8))

clampAtcStartDelay(value) ==
  LET parsed == parseInt(value)
  IN  IF ~isFinite(parsed) THEN JsNum(0) ELSE JsNum(Min(Max(parsed.n, 0), 10))

toFiniteNumber(value, fallback) ==
  LET num == parseFloat(value)
  IN  IF isFinite(num) THEN num ELSE JsNum(fallback)

sanitizeColletSize(value) ==
  IF value.t = "string" /\ value.s \in ALLOWED_COLLET_SIZES THEN value ELSE JsStr("ER20")
sanitizeModel(value) ==
  IF value.t = "string" /\ value.s \in ALLOWED_MODELS THEN value ELSE JsStr("Pro")
sanitizeOrientation(value) ==
  IF value.t = "string" /\ value.s \in ORIENTATIONS THEN value ELSE JsStr("Y")
sanitizeDirection(value) ==
  IF value.t = "string" /\ value.s \in DIRECTIONS THEN value ELSE JsStr("Negative")

\* (coords = {}) => ({x: toFiniteNumber(coords.x), y: toFiniteNumber(coords.y)}):
\* reading .x of null raises a TypeError
sanitizeCoordsThrows(coords) == coords.t = "null"
sanitizeCoords(coords) ==
  Coords(toFiniteNumber(coords.x, 0), toFiniteNumber(coords.y, 0))

getDefaultLoadRpm(colletSize) == IF colletSize.s = "ER16" THEN 1600 ELSE 1200
getDefaultUnloadRpm(colletSize) == IF colletSize.s = "ER16" THEN 2000 ELSE 1500
getDefaultSpindleAtSpeed(colletSize) == TRUE
getDefaultZRetreat(colletSize) == IF colletSize.s = "ER16" THEN 17 ELSE 7

\* raw.model ?? raw.colletSize: the other order of the two fields
rawColletSize_ModelFirst(f) == Coalesce(f.model, f.colletSize)

\* raw.colletSize ?? raw.model
rawColletSize(f) == Coalesce(f.colletSize, f.model)
\* raw.model ?? raw.trip ?? raw.modelName ?? raw.machineModel
rawModel(f) == Coalesce(Coalesce(Coalesce(f.model, f.trip), f.modelName), f.machineModel)
\* raw.x !== undefined && raw.x !== null ? toFiniteNumber(raw.x, dflt) : dflt
numberOrDefault(value, dflt) ==
  IF value.t \notin {"undefined", "null"} THEN toFiniteNumber(value, dflt) ELSE JsNum(dflt)

\* the record buildInitialConfig returns for the fields f of its argument
normalizedFields(f) ==
  LET colletSize == sanitizeColletSize(rawColletSize(f))
  IN  [ NoFields EXCEPT
          !.colletSize = colletSize,
          !.pockets = clampPockets(f.pockets),
          !.model = sanitizeModel(rawModel(f)),
          !.orientation = sanitizeOrientation(f.orientation),
          !.direction = sanitizeDirection(f.direction),
          !.showMacroCommand = Coalesce(f.showMacroCommand, JsBool(FALSE)),
          !.performTlsAfterHome = Coalesce(f.performTlsAfterHome, JsBool(FALSE)),
          !.spindleAtSpeed =
             IF f.spindleAtSpeed.t \notin {"undefined", "null"}
               THEN JsBool(truthy(f.spindleAtSpeed))
               ELSE JsBool(getDefaultSpindleAtSpeed(colletSize)),
          !.addProbe = Coalesce(f.addProbe, JsBool(FALSE)),
          !.atcStartDelay = clampAtcStartDelay(Coalesce(f.atcStartDelay, f.spindleDelay)),
          !.pocket1 = sanitizeCoords(f.pocket1),
          !.toolSetter = sanitizeCoords(f.toolSetter),
          !.manualTool = sanitizeCoords(f.manualTool),
          !.pocketDistance = toFiniteNumber(f.pocketDistance, 45),
          !.zEngagement = toFiniteNumber(f.zEngagement, -50),
          !.zSafe = toFiniteNumber(f.zSafe, 0),
          !.zSpinOff = toFiniteNumber(f.zSpinOff, 23),
          !.zRetreat = numberOrDefault(f.zRetreat, getDefaultZRetreat(colletSize)),
          !.zProbeStart = toFiniteNumber(f.zProbeStart, -20),
          !.zone1 = toFiniteNumber(f.zone1, -27),
          !.zone2 = toFiniteNumber(f.zone2, -22),
          !.loadRpm = numberOrDefault(f.loadRpm, getDefaultLoadRpm(colletSize)),
          !.unloadRpm = numberOrDefault(f.unloadRpm, getDefaultUnloadRpm(colletSize)),
          !.engageFeedrate = toFiniteNumber(f.engageFeedrate, 3500),
          !.seekDistance = toFiniteNumber(f.seekDistance, 50),
          !.seekFeedrate = toFiniteNumber(f.seekFeedrate, 500),
          !.toolSensor = Coalesce(f.toolSensor, JsStr("Probe/TLS")),
          !.probeLoadGcode = Coalesce(f.probeLoadGcode, JsStr("")),
          !.probeUnloadGcode = Coalesce(f.probeUnloadGcode, JsStr("")),
          !.preToolChangeGcode = Coalesce(f.preToolChangeGcode, JsStr("")),
          !.postToolChangeGcode = Coalesce(f.postToolChangeGcode, JsStr("")),
          !.abortEventGcode = Coalesce(f.abortEventGcode, JsStr("")),
          !.tlsAuxOutput =
             IF f.tlsAuxOutput.t = "string" /\ f.tlsAuxOutput.s \in {"M7", "M8"}
               THEN f.tlsAuxOutput
               ELSE toFiniteNumber(f.tlsAuxOutput, -1) ]

\* (raw = {}) => ...: reading a field of null raises a TypeError, and so does
\* sanitizeCoords on a position field that is null
buildInitialConfig(r) ==
  IF r.t = "null" THEN [threw |-> TRUE, value |-> NoFields]
  ELSE IF \/ sanitizeCoordsThrows(r.fields.pocket1)
          \/ sanitizeCoordsThrows(r.fields.toolSetter)
          \/ sanitizeCoordsThrows(r.fields.manualTool)
         THEN [threw |-> TRUE, value |-> NoFields]
  ELSE [threw |-> FALSE, value |-> normalizedFields(r.fields)]

\* a settings record handed back as a raw configuration
Object(fields) == [t |-> "object", fields |-> fields]

(***************************************************************************)
(* State.                                                                  *)
(*   settings, currentTool, toolNumber: the inputs of a tool change        *)
(*   prog: the emitted program; pc: the line the controller is at          *)
(*   run: "idle" (nothing emitted), "run", "hold" (paused by M0),          *)
(*        "done", "reset" (aborted by the operator's soft reset), "alarm"  *)
(*        (a probe cycle failed)                                           *)
(*   p5399: the controller's register #5399 (result of the last M66)       *)
(*   tlo: the controller's tool-length-offset register (#<_tool_offset>)   *)
(*   trace: the indexes of the lines executed so far, in order             *)
(*   reads: the sensor checks executed so far: block id, whether the       *)
(*          sensor was triggered, whether the block was entered            *)
(*   commands: the caller's command array; given: what it held when the   *)
(*   caller built it; before: what it held before the last call;           *)
(*   returned: the list the last call returned; threw: whether the last    *)
(*   call raised an exception; calls: the calls made; context: the machine *)
(*   context of the calls                                                  *)
(*   raw: the raw configuration handed to buildInitialConfig; cfg: what    *)
(*   the last call of buildInitialConfig gave; prev: what the call before  *)
(*   it gave; passes: the calls made, each on the record of the one before *)
(*   pos: the position calculatePocketPosition returned, once called       *)
(*   fmtLines: the lines formatGCode was given (trimmed, blank ones gone)  *)
(*   formatted, indentLevel: its output so far and its indent counter      *)
(*   configured: the stored plugin settings have pocket1 and pockets       *)
(*   inflight: the invocations of the host's onBeforeCommand handler       *)
(*   abortEventGcode: the configured abort G-code, a text                  *)
(*   reported: the data the host has delivered on 'ws:cnc-data'            *)
(*   dialogs: the recovery dialogs opened, each with its two buttons       *)
(*   sent: the commands the dialogs have posted, in order                  *)
(*   clicks: the clicks made on buttons of the dialogs                     *)
(*   reload: where onUnload (old instance) and onLoad (new instance) stand *)
(*           in a hot reload, and what onLoad read from the settings       *)
(*   network: the PATCH /api/settings requests sent and not yet answered,  *)
(*            and the answers not yet taken                                 *)
(*   toolSettings: the "tool" object of the host's settings                *)
(*   clock: the time since the reload began, in ticks of TickMs            *)
(***************************************************************************)
VARIABLES settings, currentTool, toolNumber, prog, pc, run, p5399, tlo, trace, reads,
          commands, given, before, returned, threw, calls, context,
          raw, cfg, prev, passes,
          pos, fmtLines, formatted, indentLevel,
          configured, inflight,
          abortEventGcode, reported, dialogs, sent, clicks,
          reload, network, toolSettings, clock

ctlVars == << currentTool, toolNumber, prog, pc, run, p5399, tlo, trace, reads >>
cmdVars == << commands, given, before, returned, threw, calls, context >>
cfgVars == << raw, cfg, prev, passes >>
fnVars == << pos, fmtLines, formatted, indentLevel >>
dlgVars == << abortEventGcode, reported, dialogs, sent, clicks >>
rldVars == << reload, network, toolSettings, clock >>
hostVars == << configured, inflight, dlgVars, rldVars >>
vars == << settings, ctlVars, cmdVars, cfgVars, fnVars, hostVars >>

\* the state of the parts a specification leaves alone
IdleCtl ==
  /\ currentTool = 0 /\ toolNumber = 0 /\ prog = <<>> /\ pc = 0 /\ run = "idle"
  /\ p5399 = 0 /\ tlo = 0 /\ trace = <<>> /\ reads = <<>>
IdleCmd ==
  /\ commands = <<>> /\ given = <<>> /\ before = <<>> /\ returned = <<>>
  /\ threw = FALSE /\ calls = 0
  /\ context = [hasMachineState |-> FALSE, tool |-> 0,
                tools |-> [isArray |-> FALSE, rows |-> <<>>]]
IdleCfg ==
  /\ raw = [t |-> "undefined", fields |-> NoFields]
  /\ cfg = [threw |-> FALSE, value |-> NoFields]
  /\ prev = [threw |-> FALSE, value |-> NoFields]
  /\ passes = 0

IdlePos == pos = [set |-> FALSE, x |-> 0, y |-> 0]
IdleFmt == fmtLines = <<>> /\ formatted = <<>> /\ indentLevel = 0
IdleFn == IdlePos /\ IdleFmt
IdleDlg ==
  /\ abortEventGcode = <<>> /\ reported = <<>> /\ dialogs = <<>> /\ sent = <<>>
  /\ clicks = 0
IdleHandler == configured = FALSE /\ inflight = <<>>
NoTool == [count |-> 0, source |-> "null", manual |-> FALSE, tls |-> FALSE, probe |-> FALSE]
IdleRld ==
  /\ reload = [onUnload |-> "idle", onLoad |-> "idle", deadline |-> 0,
               pockets |-> 0, isConfigured |-> FALSE, addProbe |-> FALSE]
  /\ network = {} /\ toolSettings = NoTool /\ clock = 0
IdleHost == IdleHandler /\ IdleDlg /\ IdleRld

SensorNames == {"Probe/TLS", "Aux P1", "_probe_state"}
ToolNumbers == (0..MaxTool) \cup {PROBE_TOOL_NUMBER}
UserSnippet == << L0("(user g-code)") >>

InitCtl ==
  /\ \E sensor \in SensorNames, atSpeed \in BOOLEAN, pockets \in 1..MaxPockets :
       settings = [DefaultSettings EXCEPT !.toolSensor = JsStr(sensor),
                                          !.spindleAtSpeed = atSpeed,
                                          !.pockets = pockets]
  /\ currentTool \in ToolNumbers
  /\ toolNumber \in ToolNumbers
  /\ prog = <<>>
  /\ pc = 0
  /\ run = "idle"
  /\ p5399 = 0
  /\ tlo = 0
  /\ trace = <<>>
  /\ reads = <<>>
  /\ IdleCmd
  /\ IdleCfg
  /\ IdleFn
  /\ IdleHost

\* the host hands the expansion of an M6 to the controller
EmitToolChange ==
  /\ run = "idle"
  /\ prog' = buildToolChangeProgram(settings, currentTool, toolNumber, ZeroOffsets)
  /\ pc' = 1
  /\ run' = "run"
  /\ UNCHANGED << settings, currentTool, toolNumber, p5399, tlo, trace, reads, cmdVars, cfgVars, fnVars, hostVars >>

(***************************************************************************)
(* The machine controller executing the emitted program, line by line.     *)
(***************************************************************************)
AtLine == run = "run" /\ pc \in 1..Len(prog)
\* after line i: the next line, or the end of the program
After(i) == IF i + 1 > Len(prog) THEN "done" ELSE "run"

\* the first line after i that is one of ops of block o
NextOf(i, o, ops) ==
  LET js == {j \in (i + 1)..Len(prog) : prog[j].op \in ops /\ prog[j].n = o}
  IN  IF js = {} THEN Len(prog) + 1 ELSE CHOOSE j \in js : \A k \in js : j <= k

\* the line the controller goes to when the condition of the IF at i is false:
\* the one after the block's ELSE, or the block's ENDIF
SkipBlock(i) ==
  LET j == NextOf(i, prog[i].n, {"o ELSE", "o ENDIF"})
  IN  IF j <= Len(prog) /\ prog[j].op = "o ELSE" THEN j + 1 ELSE j

Goto(j) ==
  /\ pc' = j
  /\ run' = IF j > Len(prog) THEN "done" ELSE "run"
  /\ trace' = Append(trace, pc)

\* M66 P<port> L3 Q0.2: wait for the input, #5399 = -1 when it timed out
ExecM66 ==
  /\ AtLine /\ prog[pc].op = "M66 P L3 Q0.2"
  /\ \E input \in {0, 1} : p5399' = IF input = 1 THEN 1 ELSE -1
  /\ Goto(pc + 1)
  /\ UNCHANGED << settings, currentTool, toolNumber, prog, tlo, reads, cmdVars, cfgVars, fnVars, hostVars >>

\* what a condition evaluates to, given the probe and toolsetter state
\* variables (a named sensor is read as the probe state)
CondHolds(line, probe, toolsetter) ==
  CASE line.c = "[#5399 EQ -1]" -> p5399 = -1
    [] line.c = "[#5399 NE -1]" -> p5399 # -1
    [] line.c = "[#<_probe_state> EQ 0 AND #<_toolsetter_state> EQ 0]" ->
         probe = 0 /\ toolsetter = 0
    [] line.c = "[#<_probe_state> EQ 1 OR #<_toolsetter_state> EQ 1]" ->
         probe = 1 \/ toolsetter = 1
    [] line.c = "[#<> EQ ]" -> probe = line.m
    [] line.c = "[[#<_tool_offset> EQ 0] AND [#<_current_tool> NE 0]]" ->
         tlo = 0 /\ currentTool # 0
    [] OTHER -> FALSE

\* whether the tool sensor the settings name reports a tool
Triggered(probe, toolsetter) ==
  IF AuxPort(settings.toolSensor.s) # -1 THEN p5399 # -1
  ELSE IF settings.toolSensor.s = "Probe/TLS" THEN probe = 1 \/ toolsetter = 1
  ELSE probe = 1

ExecIf ==
  /\ AtLine /\ prog[pc].op = "o IF"
  /\ \E probe \in {0, 1}, toolsetter \in {0, 1} :
       LET taken == CondHolds(prog[pc], probe, toolsetter)
       IN  /\ reads' = Append(reads, [o |-> prog[pc].n,
                                      trig |-> Triggered(probe, toolsetter),
                                      taken |-> taken])
           /\ Goto(IF taken THEN pc + 1 ELSE SkipBlock(pc))
  /\ UNCHANGED << settings, currentTool, toolNumber, prog, p5399, tlo, cmdVars, cfgVars, fnVars, hostVars >>

\* an ELSE reached at the end of the IF branch: on to the block's ENDIF
ExecElse ==
  /\ AtLine /\ prog[pc].op = "o ELSE"
  /\ Goto(NextOf(pc, prog[pc].n, {"o ENDIF"}))
  /\ UNCHANGED << settings, currentTool, toolNumber, prog, p5399, tlo, reads, cmdVars, cfgVars, fnVars, hostVars >>

\* M0: programmed pause, the controller holds until cycle start
ExecPause ==
  /\ AtLine /\ prog[pc].op = "M0"
  /\ pc' = pc + 1
  /\ run' = "hold"
  /\ trace' = Append(trace, pc)
  /\ UNCHANGED << settings, currentTool, toolNumber, prog, p5399, tlo, reads, cmdVars, cfgVars, fnVars, hostVars >>

\* G43.1 Z<length>: the tool-length-offset register is set, to 0 or to the
\* length the probe cycle measured (a length that is not 0)
MeasuredLengths == {-85, -42}
OffsetOps == {"G43.1 Z0", "G43.1 Z[#<_nc_last_tlo>]"}
ExecOffset ==
  /\ AtLine /\ prog[pc].op \in OffsetOps
  /\ IF prog[pc].op = "G43.1 Z0" THEN tlo' = 0 ELSE tlo' \in MeasuredLengths
  /\ Goto(pc + 1)
  /\ UNCHANGED << settings, currentTool, toolNumber, prog, p5399, reads, cmdVars, cfgVars, fnVars, hostVars >>

\* G38.2, G38.4: a probe cycle; without the contact it waits for, the
\* controller raises an alarm and drops the program
ProbeOps == {"G38.2 G91 Z- F", "G38.4 G91 Z5 F75"}
ExecProbe ==
  /\ AtLine /\ prog[pc].op \in ProbeOps
  /\ \E contact \in BOOLEAN :
       IF contact
         THEN Goto(pc + 1)
         ELSE /\ run' = "alarm"
              /\ trace' = Append(trace, pc)
              /\ pc' = pc
  /\ UNCHANGED << settings, currentTool, toolNumber, prog, p5399, tlo, reads, cmdVars, cfgVars, fnVars, hostVars >>

ExecPlain ==
  /\ AtLine
  /\ prog[pc].op \notin {"M66 P L3 Q0.2", "o IF", "o ELSE", "M0"} \cup OffsetOps \cup ProbeOps
  /\ Goto(pc + 1)
  /\ UNCHANGED << settings, currentTool, toolNumber, prog, p5399, tlo, reads, cmdVars, cfgVars, fnVars, hostVars >>

\* the recovery dialog's Continue: cycle start
OperatorContinue ==
  /\ run = "hold"
  /\ run' = After(pc - 1)
  /\ UNCHANGED << settings, currentTool, toolNumber, prog, pc, p5399, tlo, trace, reads, cmdVars, cfgVars, fnVars, hostVars >>

\* the recovery dialog's Abort: soft reset, the program is dropped
OperatorAbort ==
  /\ run = "hold"
  /\ run' = "reset"
  /\ UNCHANGED << settings, currentTool, toolNumber, prog, pc, p5399, tlo, trace, reads, cmdVars, cfgVars, fnVars, hostVars >>

NextCtl ==
  \/ EmitToolChange
  \/ ExecM66
  \/ ExecIf
  \/ ExecElse
  \/ ExecPause
  \/ ExecOffset
  \/ ExecProbe
  \/ ExecPlain
  \/ OperatorContinue
  \/ OperatorAbort

SpecCtl == InitCtl /\ [][NextCtl]_vars

(***************************************************************************)
(* Observations on an execution, used by the properties below.             *)
(***************************************************************************)
\* the positions of the trace at which a line with this op and number ran
RanAt(op, n) == {k \in 1..Len(trace) : prog[trace[k]].op = op /\ prog[trace[k]].n = n}
\* the positions of the trace at which a line with this op ran
RanOp(op) == {k \in 1..Len(trace) : prog[trace[k]].op = op}
\* the positions of the trace at which the marker comment with this code ran
MarkerAt(code) ==
  {k \in 1..Len(trace) : prog[trace[k]].op = "(MSG, PLUGIN_RAPIDCHANGEATC:)"
                          /\ prog[trace[k]].c = code}
\* the sensor checks of block o executed so far
ReadsOf(o) == {k \in 1..Len(reads) : reads[k].o = o}
InPocketRange(tool) == tool \in 1..settings.pockets
\* the positions at which the load's M61 Q<tool> ran
LoadM61At == RanAt("M61 Q", toolNumber)
\* the positions at which the load moved up to zone2
Zone2MoveAt == RanAt("G53 G0 Z", settings.zone2)
PickFailure == MarkerAt("FAILED_LOAD_TOOL") # {} /\ Zone2MoveAt = {}
SeatFailure == MarkerAt("FAILED_LOAD_TOOL") # {} /\ Zone2MoveAt # {}

(***************************************************************************)
(* C1 (as claimed): for a target tool within the pocket range, M61 Q<tool> *)
(* is executed only on the path on which neither failure condition held:   *)
(* once it has run, no FAILED_LOAD_TOOL marker has been raised.            *)
(***************************************************************************)
C1_M61OnlyOnSuccessPath ==
  (InPocketRange(toolNumber) /\ LoadM61At # {}) => MarkerAt("FAILED_LOAD_TOOL") = {}

(***************************************************************************)
(* C1 (amended): for a target tool within the pocket range, every program  *)
(* that runs to its end has executed M61 Q<tool>, on the failure paths     *)
(* too; on a pick-failure or seat-failure path M61 Q<tool> is executed     *)
(* only after the FAILED_LOAD_TOOL marker and the programmed pause M0 that *)
(* follows it, so only once the operator has continued.                    *)
(***************************************************************************)
C1_M61AfterPauseOnFailure ==
  InPocketRange(toolNumber) =>
    /\ run = "done" => LoadM61At # {}
    /\ \A k \in LoadM61At :
         MarkerAt("FAILED_LOAD_TOOL") # {} =>
           \E i \in MarkerAt("FAILED_LOAD_TOOL"), j \in RanOp("M0") : i < j /\ j < k

\* a load that failed, was continued by the operator and declared the tool
W_C1_FailedLoadThenM61 ==
  /\ InPocketRange(toolNumber)
  /\ LoadM61At # {}
  /\ MarkerAt("FAILED_LOAD_TOOL") # {}

(***************************************************************************)
(* C2: for a current tool within the pocket range, whatever the sensor     *)
(* reads, the unload routine (one M4 spin each) runs at most twice; a      *)
(* second time only if the check of block 100, after the first run, found  *)
(* the sensor triggered; and FAILED_UNLOAD_TOOL is raised only after two   *)
(* runs, the check of block 101 having found the sensor still triggered.   *)
(***************************************************************************)
C2_SingleRetryThenFallback ==
  InPocketRange(currentTool) =>
    LET runs == RanAt("M4 S", settings.unloadRpm)
    IN  /\ Cardinality(runs) <= 2
        /\ Cardinality(runs) = 2 =>
             \E r \in ReadsOf(100) : reads[r].trig
        /\ MarkerAt("FAILED_UNLOAD_TOOL") # {} =>
             /\ Cardinality(runs) = 2
             /\ \E r \in ReadsOf(100) : reads[r].trig
             /\ \E r \in ReadsOf(101) : reads[r].trig
        /\ \A r \in ReadsOf(100) : Cardinality(runs) >= 1 /\ (\A q \in ReadsOf(101) : r < q)
        /\ ReadsOf(101) # {} => Cardinality(runs) = 2

\* the unload failed twice and the failure marker was raised
W_C2_UnloadFailedTwice ==
  /\ InPocketRange(currentTool)
  /\ MarkerAt("FAILED_UNLOAD_TOOL") # {}
  /\ Cardinality(RanAt("M4 S", settings.unloadRpm)) = 2

(***************************************************************************)
(* C3: in the load routine of a target tool within the pocket range the    *)
(* zone1 check (block 300) comes before the zone2 check (block 301); the   *)
(* move to zone2 and the zone2 check are executed only when the zone1      *)
(* check found the sensor triggered; at most one FAILED_LOAD_TOOL marker   *)
(* is raised; and once the checks are over (M61 Q<tool> has run), nothing  *)
(* at zone1 has led to the pick failure, triggered at zone1 and at zone2   *)
(* to the seat failure, triggered at zone1 and not at zone2 to no failure. *)
(***************************************************************************)
C3_TwoZoneVerification ==
  InPocketRange(toolNumber) =>
    /\ Cardinality(ReadsOf(300)) <= 1 /\ Cardinality(ReadsOf(301)) <= 1
    /\ \A q \in ReadsOf(301) : \E r \in ReadsOf(300) : r < q /\ reads[r].trig
    /\ Zone2MoveAt # {} => \E r \in ReadsOf(300) : reads[r].trig
    /\ Cardinality(MarkerAt("FAILED_LOAD_TOOL")) <= 1
    /\ PickFailure => \E r \in ReadsOf(300) : ~reads[r].trig
    /\ SeatFailure => \E q \in ReadsOf(301) : reads[q].trig
    /\ LoadM61At # {} =>
         /\ ReadsOf(300) # {}
         /\ \A r \in ReadsOf(300) :
              /\ ~reads[r].trig => PickFailure /\ ReadsOf(301) = {}
              /\ reads[r].trig => ReadsOf(301) # {}
         /\ \A q \in ReadsOf(301) :
              /\ reads[q].trig => SeatFailure
              /\ ~reads[q].trig => MarkerAt("FAILED_LOAD_TOOL") = {}

\* a load whose tool was seen at zone1 and again at zone2: the seat failure
W_C3_SeatFailure ==
  /\ InPocketRange(toolNumber)
  /\ SeatFailure
  /\ LoadM61At # {}

(***************************************************************************)
(* The engine's entry point, called by the host on a command list.         *)
(***************************************************************************)
\* command lists of up to MaxCmds entries are drawn
MaxCmds == 3
\* up to MaxCalls calls are made on a list
MaxCalls == 2

Original(line) ==
  [command |-> TextVal(line), displayCommand |-> NullVal, isOriginal |-> TRUE,
   meta |-> "none", src |-> 0]
Synthetic(line) == [Original(line) EXCEPT !.isOriginal = FALSE]
\* an original entry without a command field
NoCommand == [Original(Blank) EXCEPT !.command = UndefinedVal]

EntryCatalogue ==
  { Original(L0("$H")), Original(L0(" $tls ")), Original(L0("$POCKET1")),
    Original(L1("T M6", 1)), Original(L0("M6")),
    Synthetic(L0("$H")), NoCommand }

SettingsCatalogue ==
  { [DefaultSettings EXCEPT !.showMacroCommand = show, !.performTlsAfterHome = tls] :
      show \in BOOLEAN, tls \in BOOLEAN }
  \cup { [DefaultSettings EXCEPT !.performTlsAfterHome = TRUE,
                                 !.preToolChangeGcode = << L0("$TLS") >>],
         [DefaultSettings EXCEPT !.toolSensor = JsNum(1)] }

ToolRow(n, x, y, z) ==
  [isNull |-> FALSE, toolNumber |-> n, hasOffsets |-> TRUE,
   offsets |-> [x |-> x, y |-> y, z |-> z]]
NullRow == [ToolRow(0, 0, 0, 0) EXCEPT !.isNull = TRUE, !.hasOffsets = FALSE]

ContextCatalogue ==
  { [hasMachineState |-> FALSE, tool |-> 0, tools |-> [isArray |-> FALSE, rows |-> <<>>]],
    [hasMachineState |-> TRUE, tool |-> 1,
     tools |-> [isArray |-> TRUE, rows |-> << ToolRow(1, 1, 2, 3) >>]],
    [hasMachineState |-> TRUE, tool |-> 1,
     tools |-> [isArray |-> TRUE, rows |-> << NullRow >>]] }

InitCmd ==
  /\ settings \in SettingsCatalogue
  /\ context \in ContextCatalogue
  /\ \E k \in 0..MaxCmds : \E list \in [1..k -> EntryCatalogue] :
       commands = [i \in 1..k |-> [list[i] EXCEPT !.src = i]]
  /\ given = commands
  /\ before = <<>>
  /\ returned = <<>>
  /\ threw = FALSE
  /\ calls = 0
  /\ IdleCtl
  /\ IdleCfg
  /\ IdleFn
  /\ IdleHost

\* the host calls onBeforeCommand(commands, context, settings): the handlers
\* splice the caller's array, which is also what the call returns
CallOnBeforeCommand ==
  /\ calls < MaxCalls
  /\ ~threw
  /\ LET r == onBeforeCommand(commands, context, settings)
     IN  /\ commands' = r.list
         /\ threw' = r.threw
         /\ returned' = IF r.threw THEN <<>> ELSE r.list
  /\ before' = commands
  /\ calls' = calls + 1
  /\ UNCHANGED << settings, given, context, ctlVars, cfgVars, fnVars, hostVars >>

NextCmd == CallOnBeforeCommand

SpecCmd == InitCmd /\ [][NextCmd]_vars

(***************************************************************************)
(* Observations on a call.                                                 *)
(***************************************************************************)
\* the entries of a list that are, or were expanded from, entry i of the
\* list the caller gave
Group(list, i) == SelectSeq(list, LAMBDA e : e.src = i)
\* the entries are in the order of the entries they come from
InGivenOrder(list) == \A j \in 1..(Len(list) - 1) : list[j].src <= list[j + 1].src
\* an original entry holding one of the trigger tokens
IsTrigger(cmd) ==
  \/ isTokenEntry(cmd, "$H")
  \/ isTokenEntry(cmd, "$TLS")
  \/ isTokenEntry(cmd, "$POCKET1")
  \/ isM6Entry(cmd)
Triggers == {i \in 1..Len(given) : IsTrigger(given[i])}
\* the entries of the given list that the first call replaced in the
\* caller's array (the array is what the call returns, when it returns)
Expanded == {i \in 1..Len(given) : Group(commands, i) # << given[i] >>}
\* inputs of the types the data model gives: every command is text, the
\* tool sensor is text, the tool table has no null row
WellTyped ==
  /\ \A i \in 1..Len(given) : given[i].command.t = "string"
  /\ settings.toolSensor.t = "string"
  /\ \A r \in 1..Len(context.tools.rows) : ~context.tools.rows[r].isNull
HomeLeftAlone(i) == isTokenEntry(given[i], "$H") /\ ~settings.performTlsAfterHome

(***************************************************************************)
(* C4 (as claimed): for every (well-typed) command list with exactly one   *)
(* trigger token in an original entry, the call performs exactly one       *)
(* expansion, and every other entry is in the result with the same content *)
(* and in the same relative order.                                         *)
(***************************************************************************)
C4_ExactlyOneExpansion ==
  (calls = 1 /\ WellTyped /\ Cardinality(Triggers) = 1) =>
    /\ ~threw
    /\ Cardinality(Expanded) = 1
    /\ \A i \in (1..Len(given)) \ Triggers : Group(commands, i) = << given[i] >>
    /\ InGivenOrder(commands)

(***************************************************************************)
(* C4 (amended): for every command list with exactly one trigger token in  *)
(* an original entry, the call expands at most that entry: it expands it   *)
(* unless it is a $H entry and performTlsAfterHome is unset (then nothing  *)
(* is expanded) or the call raises an exception before the entry's handler *)
(* has replaced it; in every case every other entry stays in the list with *)
(* the same content and in the same relative order, and the list that is   *)
(* returned is the caller's list.                                          *)
(***************************************************************************)
C4_OneExpansionUnlessHomeLeftAlone ==
  (calls = 1 /\ Cardinality(Triggers) = 1) =>
    /\ \A i \in Triggers :
         /\ Expanded \subseteq {i}
         /\ ~threw => /\ Expanded = IF HomeLeftAlone(i) THEN {} ELSE {i}
                      /\ returned = commands
    /\ \A i \in (1..Len(given)) \ Triggers : Group(commands, i) = << given[i] >>
    /\ InGivenOrder(commands)
    /\ Len(commands) >= Len(given)

\* a trigger between two other entries was expanded
W_C4_TriggerBetweenOthers ==
  /\ calls = 1 /\ ~threw /\ Triggers = {2} /\ Len(given) = 3
  /\ Expanded = {2}
  /\ Len(returned) > 3

(***************************************************************************)
(* C5: an entry with isOriginal false is never replaced, whatever its      *)
(* command text; every entry produced by an expansion has isOriginal       *)
(* false; and no entry produced by an expansion is expanded again, by a    *)
(* later handler of the same call or by a later call on the returned list: *)
(* the entries a call finds that come from an entry it holds no original   *)
(* of are the same after the call.                                         *)
(***************************************************************************)
C5_SyntheticNeverExpanded ==
  /\ \A i \in 1..Len(given) :
       ~given[i].isOriginal => Group(commands, i) = << given[i] >>
  /\ \A j \in 1..Len(commands) :
       commands[j] # given[commands[j].src] => ~commands[j].isOriginal
  /\ \A i \in 1..Len(given) :
       (calls >= 1 /\ \A j \in 1..Len(Group(before, i)) : ~Group(before, i)[j].isOriginal)
         => Group(commands, i) = Group(before, i)
  /\ InGivenOrder(commands)

\* after a second call, an expansion of the first call that holds a line
\* reading $TLS, and a given $H entry that is not original, are both there
W_C5_TriggerTextInExpansion ==
  /\ calls = 2
  /\ \E j \in 1..Len(commands) :
       /\ commands[j] # given[commands[j].src]
       /\ isToken(commands[j].command.text, "$TLS")
  /\ \E i \in 1..Len(given) : ~given[i].isOriginal /\ isToken(given[i].command.text, "$H")

(***************************************************************************)
(* C6 (as claimed): with showMacroCommand false, the first entry of an     *)
(* expansion, and it alone, has a displayCommand, equal to the original    *)
(* trigger text, and the remaining entries are marked silent; with         *)
(* showMacroCommand true no entry of an expansion is marked silent and     *)
(* each has displayCommand null.                                           *)
(***************************************************************************)
C6_DisplayIsTriggerText ==
  calls = 1 =>
    \A i \in Expanded :
      LET exp == Group(commands, i)
      IN  IF settings.showMacroCommand
            THEN \A j \in 1..Len(exp) :
                   exp[j].displayCommand = NullVal /\ exp[j].meta # "{silent}"
            ELSE /\ exp[1].displayCommand = given[i].command
                 /\ \A j \in 2..Len(exp) :
                      exp[j].displayCommand = NullVal /\ exp[j].meta = "{silent}"

(***************************************************************************)
(* C6 (amended): as claimed, except that the displayCommand of the first   *)
(* entry is the original trigger text with the blanks around it trimmed    *)
(* (the first entry itself is not marked silent).                          *)
(***************************************************************************)
C6_DisplayIsTrimmedTriggerText ==
  calls = 1 =>
    \A i \in Expanded :
      LET exp == Group(commands, i)
      IN  IF settings.showMacroCommand
            THEN \A j \in 1..Len(exp) :
                   exp[j].displayCommand = NullVal /\ exp[j].meta # "{silent}"
            ELSE /\ exp[1].displayCommand.t = "string"
                 /\ exp[1].displayCommand.text.op = trimOp(given[i].command.text.op)
                 /\ exp[1].displayCommand.text.n = given[i].command.text.n
                 /\ exp[1].displayCommand.text.ind = 0
                 /\ exp[1].meta # "{silent}"
                 /\ \A j \in 2..Len(exp) :
                      exp[j].displayCommand = NullVal /\ exp[j].meta = "{silent}"

\* a trigger written with blanks around it was expanded, macro display off
W_C6_HiddenMacroOfPaddedTrigger ==
  /\ calls = 1 /\ ~settings.showMacroCommand
  /\ \E i \in Expanded :
       /\ given[i].command.text.op = " $tls "
       /\ Len(Group(commands, i)) > 1

(***************************************************************************)
(* C7 (as claimed): a call leaves the list it was given unchanged: after   *)
(* the call the caller's list has the same length and the same entries as  *)
(* before the call, also when a trigger was expanded.                      *)
(***************************************************************************)
C7_GivenListUnchanged ==
  calls >= 1 => commands = given

(***************************************************************************)
(* C8 (as claimed): onBeforeCommand raises no exception, whatever the      *)
(* command list, the machine context and the settings record.              *)
(***************************************************************************)
C8_NeverThrows == ~threw

(***************************************************************************)
(* The settings normalizer applied to a raw configuration, and again to    *)
(* the record it returned.                                                 *)
(***************************************************************************)
\* buildInitialConfig is applied up to MaxPasses times in a row
MaxPasses == 2

EnumSamples ==
  { JsUndefined, JsNull, JsStr("ER16"), JsStr("Premium"), JsStr("X"), JsStr("Positive"),
    JsStr("abc"), JsNum(0) }
NumberSamples ==
  { JsUndefined, JsNull, JsNum(0), JsNum(-3), JsHalf(7), JsNum(5000), JsStr("6"),
    JsStr("12abc"), JsStr("abc"), JsStr("Infinity"), JsBool(TRUE) }
AnySamples ==
  { JsUndefined, JsNull, JsBool(FALSE), JsBool(TRUE), JsNum(0), JsNaN, JsStr(""),
    JsStr("abc") }
CoordsSamples ==
  { NoCoords, NullCoords, Coords(JsNum(1), JsStr("6")), Coords(JsUndefined, JsHalf(7)),
    [NoCoords EXCEPT !.t = "number"] }

\* the fields a raw configuration of the model sets, each with a value
FieldSamples ==
  ({"colletSize", "model", "trip", "orientation", "direction"} \X EnumSamples)
  \cup ({"loadRpm", "zRetreat", "pockets", "atcStartDelay", "spindleDelay", "zSafe"}
          \X NumberSamples)
  \cup ({"tlsAuxOutput"} \X (NumberSamples \cup {JsStr("M7")}))
  \cup ({"spindleAtSpeed", "showMacroCommand", "toolSensor", "probeLoadGcode"}
          \X AnySamples)
  \cup ({"pocket1", "manualTool"} \X CoordsSamples)

InitCfg ==
  /\ \/ raw \in { [t |-> k, fields |-> NoFields] : k \in {"undefined", "null", "number"} }
     \/ \E a \in FieldSamples, b \in FieldSamples :
          raw = Object([NoFields EXCEPT ![a[1]] = a[2], ![b[1]] = b[2]])
  /\ cfg = [threw |-> FALSE, value |-> NoFields]
  /\ prev = [threw |-> FALSE, value |-> NoFields]
  /\ passes = 0
  /\ settings = DefaultSettings
  /\ IdleCtl
  /\ IdleCmd
  /\ IdleFn
  /\ IdleHost

\* buildInitialConfig(raw)
Normalize ==
  /\ passes = 0
  /\ cfg' = buildInitialConfig(raw)
  /\ prev' = cfg
  /\ passes' = 1
  /\ UNCHANGED << settings, raw, ctlVars, cmdVars, fnVars, hostVars >>

\* buildInitialConfig of the record the call before returned
NormalizeAgain ==
  /\ passes \in 1..(MaxPasses - 1)
  /\ ~cfg.threw
  /\ cfg' = buildInitialConfig(Object(cfg.value))
  /\ prev' = cfg
  /\ passes' = passes + 1
  /\ UNCHANGED << settings, raw, ctlVars, cmdVars, fnVars, hostVars >>

NextCfg == Normalize \/ NormalizeAgain

SpecCfg == InitCfg /\ [][NextCfg]_vars

(***************************************************************************)
(* C9 (as claimed): buildInitialConfig is total: for every raw input,      *)
(* null and objects with null fields included, it raises no error and      *)
(* returns a record whose enumeration fields hold allowed values.          *)
(***************************************************************************)
C9_Total ==
  passes >= 1 =>
    /\ ~cfg.threw
    /\ cfg.value.colletSize.s \in ALLOWED_COLLET_SIZES
    /\ cfg.value.model.s \in ALLOWED_MODELS
    /\ cfg.value.orientation.s \in ORIENTATIONS
    /\ cfg.value.direction.s \in DIRECTIONS

(***************************************************************************)
(* C10: buildInitialConfig is idempotent: applied to the record it         *)
(* returned, it returns that record again, field by field.                 *)
(***************************************************************************)
C10_Idempotent ==
  passes >= 2 => (~cfg.threw /\ cfg = prev)

\* a configuration in the old layout (collet size under model, a number as
\* text) was normalized twice
W_C10_LegacyConfigTwice ==
  /\ passes = 2
  /\ raw.fields.model = JsStr("ER16")
  /\ raw.fields.pockets = JsStr("12abc")
  /\ cfg.value.colletSize = JsStr("ER16")
  /\ cfg.value.pockets = JsNum(8)

\* a value is an integer, or a number, of the range lo..hi
IntegerIn(v, lo, hi) == v.t = "number" /\ v.h = 0 /\ v.n >= lo /\ v.n <= hi
NumberIn(v, lo, hi) ==
  v.t = "number" /\ v.n >= lo /\ (v.n < hi \/ (v.n = hi /\ v.h = 0))

(***************************************************************************)
(* C11 (as claimed): the record buildInitialConfig returns has pockets an  *)
(* integer in [1,8], atcStartDelay an integer in [0,10], and loadRpm and   *)
(* unloadRpm each in [500,2000], also when the caller gave values out of   *)
(* range.                                                                  *)
(***************************************************************************)
C11_RangesClamped ==
  (passes >= 1 /\ ~cfg.threw) =>
    /\ IntegerIn(cfg.value.pockets, 1, 8)
    /\ IntegerIn(cfg.value.atcStartDelay, 0, 10)
    /\ NumberIn(cfg.value.loadRpm, 500, 2000)
    /\ NumberIn(cfg.value.unloadRpm, 500, 2000)

(***************************************************************************)
(* calculatePocketPosition applied to a settings record and a tool number. *)
(***************************************************************************)
\* tool numbers up to MaxSlot are drawn (the pockets are at most 8)
MaxSlot == 8

PositionSettings ==
  { [DefaultSettings EXCEPT !.orientation = o, !.direction = d, !.pocket1 = p,
                            !.pocketDistance = dist] :
      o \in {"X", "Y"}, d \in {"Positive", "Negative"},
      p \in {[x |-> 0, y |-> 0], [x |-> 10, y |-> -20]}, dist \in {0, 38, 45} }

InitPos ==
  /\ settings \in PositionSettings
  /\ toolNumber \in -1..MaxSlot
  /\ currentTool = 0 /\ prog = <<>> /\ pc = 0 /\ run = "idle"
  /\ p5399 = 0 /\ tlo = 0 /\ trace = <<>> /\ reads = <<>>
  /\ IdleCmd
  /\ IdleCfg
  /\ IdleFn
  /\ IdleHost

CalculatePosition ==
  /\ ~pos.set
  /\ LET p == calculatePocketPosition(settings, toolNumber)
     IN  pos' = [set |-> TRUE, x |-> p.x, y |-> p.y]
  /\ UNCHANGED << settings, ctlVars, cmdVars, cfgVars, fmtLines, formatted, indentLevel, hostVars >>

NextPos == CalculatePosition

SpecPos == InitPos /\ [][NextPos]_vars

(***************************************************************************)
(* C12: calculatePocketPosition returns pocket1 unchanged for a tool       *)
(* number <= 0; for a tool number from 1 on it returns pocket1 with        *)
(* (toolNum-1)*pocketDistance added to one coordinate (Y when orientation  *)
(* is Y, else X), negated when direction is Negative, the other coordinate *)
(* unchanged.                                                              *)
(***************************************************************************)
C12_PocketPosition ==
  pos.set =>
    LET p1 == settings.pocket1
        d == (toolNumber - 1) * settings.pocketDistance
        signed == IF settings.direction = "Negative" THEN 0 - d ELSE d
    IN  IF toolNumber <= 0
          THEN pos.x = p1.x /\ pos.y = p1.y
          ELSE IF settings.orientation = "Y"
                 THEN pos.x = p1.x /\ pos.y - p1.y = signed
                 ELSE pos.y = p1.y /\ pos.x - p1.x = signed

\* the example of the claim: pocket1 (0,0), distance 45, Y, Negative, tool 3
W_C12_ThirdPocket ==
  /\ pos.set /\ toolNumber = 3
  /\ settings.pocket1 = [x |-> 0, y |-> 0] /\ settings.pocketDistance = 45
  /\ settings.orientation = "Y" /\ settings.direction = "Negative"
  /\ pos.x = 0 /\ pos.y = -90

(***************************************************************************)
(* Observations on the expansion of an M6.                                 *)
(***************************************************************************)
\* the first M6 entry of the given list is for the tool the context reports
\* as loaded, a tool of the magazine
SameToolM6 ==
  /\ findM6(given) # 0
  /\ parseM6Command(given[findM6(given)].command).toolNumber = contextTool(context)
  /\ contextTool(context) \in 1..settings.pockets
\* the lines with this op and number among the entries that stand for the
\* first M6 entry
M6Lines(op, n) ==
  LET exp == Group(commands, findM6(given))
  IN  {j \in 1..Len(exp) : exp[j].command.text.op = op /\ exp[j].command.text.n = n}
MotionOps == {"M3 S", "M4 S", "G53 G1 Z F", "G53 G0 X Y", "G53 G0 Z"}
M6Motions ==
  LET exp == Group(commands, findM6(given))
  IN  {j \in 1..Len(exp) : exp[j].command.text.op \in MotionOps}

C14_SameToolSkipped ==
  (calls = 1 /\ ~threw /\ SameToolM6) => M6Motions = {}

(***************************************************************************)
(* Tool-change programs for a wider choice of settings: start delay,       *)
(* post-tool-change G-code, probe snippets, the addProbe flag, pockets and *)
(* sensor; pocket 1, tool setter and manual position are three places.     *)
(***************************************************************************)
PostSnippet == << L0("(post)") >>
ProbeLoadSnippet == << L0("(probe load)") >>
ProbeUnloadSnippet == << L0("(probe unload)") >>

GenSettings ==
  { [DefaultSettings EXCEPT !.pockets = pockets,
                            !.atcStartDelay = delay,
                            !.postToolChangeGcode = post,
                            !.probeLoadGcode = probeLoad,
                            !.probeUnloadGcode = probeUnload,
                            !.addProbe = addProbe,
                            !.toolSensor = JsStr(sensor),
                            !.pocket1 = [x |-> 10, y |-> 20],
                            !.toolSetter = [x |-> 100, y |-> 50],
                            !.manualTool = [x |-> 200, y |-> 60]] :
      pockets \in 1..MaxPockets, delay \in {0, 3},
      post \in {<<>>, PostSnippet},
      probeLoad \in {<<>>, ProbeLoadSnippet},
      probeUnload \in {<<>>, ProbeUnloadSnippet},
      addProbe \in BOOLEAN,
      sensor \in {"Probe/TLS", "Aux P1"} }

InitGen ==
  /\ settings \in GenSettings
  /\ currentTool \in ToolNumbers
  /\ toolNumber \in ToolNumbers
  /\ prog = <<>>
  /\ pc = 0
  /\ run = "idle"
  /\ p5399 = 0
  /\ tlo = 0
  /\ trace = <<>>
  /\ reads = <<>>
  /\ IdleCmd
  /\ IdleCfg
  /\ IdleFn
  /\ IdleHost

NextGen == EmitToolChange

SpecGen == InitGen /\ [][NextGen]_vars

(***************************************************************************)
(* Observations on an emitted tool-change program: the lines that belong   *)
(* to a section, by what only that section emits.                          *)
(***************************************************************************)
Emitted == run # "idle"
LinesOp(ops) == {k \in 1..Len(prog) : prog[k].op \in ops}
LinesAt(op, n) == {k \in 1..Len(prog) : prog[k].op = op /\ prog[k].n = n}
LinesMsg(codes) ==
  {k \in 1..Len(prog) : prog[k].op = "(MSG, PLUGIN_RAPIDCHANGEATC:)" /\ prog[k].c \in codes}
LinesBlock(os) == {k \in 1..Len(prog) : isOCode(prog[k]) /\ prog[k].n \in os}
\* the lines of a sensor check: the M66 read and the o-word lines
SensorCheckAt == LinesOp({"M66 P L3 Q0.2", "o IF", "o ELSE", "o ENDIF"})
\* the moves over a position
MovesOver(p) ==
  {k \in 1..Len(prog) : prog[k].op = "G53 G0 X Y" /\ prog[k].n = p.x /\ prog[k].m = p.y}
PocketMovesAt ==
  UNION { MovesOver(calculatePocketPosition(settings, t)) : t \in 1..settings.pockets }
DelayAt == LinesOp({"G4 P"})
UnloadAt ==
  LinesAt("M61 Q", 0) \cup LinesOp({"M4 S", "(Unload Probe Tool T)", "(probe unload)"})
  \cup LinesMsg({"MANUAL_UNLOAD_TOOL", "MANUAL_UNLOAD_PROBE", "FAILED_UNLOAD_TOOL"})
  \cup LinesBlock({100, 101})
LoadAt ==
  (LinesOp({"M61 Q"}) \ LinesAt("M61 Q", 0))
  \cup LinesOp({"M3 S", "(Load Probe Tool T)", "(probe load)"})
  \cup LinesMsg({"MANUAL_LOAD_TOOL", "MANUAL_LOAD_PROBE", "FAILED_LOAD_TOOL"})
  \cup LinesBlock({300, 301})
TlsAt ==
  LinesOp({"G43.1 Z0", "G38.2 G91 Z- F", "G38.4 G91 Z5 F75", "G91 G0 Z5",
           "G43.1 Z[#<_nc_last_tlo>]", "$#=_tool_offset"})
  \cup MovesOver(settings.toolSetter)
RestoreAt == LinesOp({"G[#<return_units>]"})
PostAt == LinesOp({"(post)"})
ManualMovesAt == MovesOver(settings.manualTool)

(***************************************************************************)
(* C15: a current tool of 0 gives an empty unload section and a target     *)
(* tool of 0 an empty load section: no line of that section is in the      *)
(* program - no pocket move, no sensor check, no M61 and, for the load, no *)
(* tool-length-setter routine; with both 0 the program has no move over a  *)
(* position, no sensor check and no pause at all.                          *)
(***************************************************************************)
C15_ToolZeroEmptySection ==
  Emitted =>
    /\ currentTool = 0 => UnloadAt = {}
    /\ toolNumber = 0 => LoadAt = {} /\ TlsAt = {}
    /\ (currentTool = 0 /\ toolNumber = 0) =>
         /\ LinesOp({"G53 G0 X Y", "M0", "M61 Q"}) = {}
         /\ SensorCheckAt = {}
    /\ (currentTool = 0 /\ toolNumber \in 1..settings.pockets) =>
         /\ PocketMovesAt = MovesOver(calculatePocketPosition(settings, toolNumber))
         /\ Cardinality(PocketMovesAt) = 1
         /\ Cardinality(LinesOp({"M61 Q"})) = 1
    /\ (toolNumber = 0 /\ currentTool \in 1..settings.pockets) =>
         /\ PocketMovesAt = MovesOver(calculatePocketPosition(settings, currentTool))
         /\ Cardinality(PocketMovesAt) = 1
         /\ LinesOp({"M61 Q"}) = LinesAt("M61 Q", 0)

\* a program that only unloads: tool 1 of the magazine to tool 0
W_C15_UnloadOnly ==
  /\ Emitted /\ currentTool = 1 /\ toolNumber = 0
  /\ UnloadAt # {} /\ LoadAt = {} /\ TlsAt = {}

\* the marker at line k is followed by the Manual-Fallback routine: retract
\* to the safe height, move to the manual tool position, pause
FollowedByFallback(k) ==
  /\ k + 3 <= Len(prog)
  /\ prog[k + 1].op = "G53 G0 Z" /\ prog[k + 1].n = settings.zSafe
  /\ k + 2 \in ManualMovesAt
  /\ prog[k + 3].op = "M0"
\* a tool whose number exceeds the pocket count (the probe tool is one)
BeyondPockets(tool) == tool > settings.pockets
ManualLoadCode == IF toolNumber = PROBE_TOOL_NUMBER THEN "MANUAL_LOAD_PROBE" ELSE "MANUAL_LOAD_TOOL"
ManualUnloadCode ==
  IF currentTool = PROBE_TOOL_NUMBER THEN "MANUAL_UNLOAD_PROBE" ELSE "MANUAL_UNLOAD_TOOL"

(***************************************************************************)
(* C16 (as claimed): for a tool change whose target tool number exceeds    *)
(* the pocket count, the tool is routed to the Manual-Fallback routine and *)
(* the program contains no sensor-check block, for every current tool and  *)
(* settings record.                                                        *)
(***************************************************************************)
C16_BeyondPocketsNoSensorCheck ==
  (Emitted /\ BeyondPockets(toolNumber)) =>
    /\ \E k \in LinesMsg({"MANUAL_LOAD_TOOL", "MANUAL_LOAD_PROBE"}) : FollowedByFallback(k)
    /\ SensorCheckAt = {}

(***************************************************************************)
(* C16 (amended): a target tool whose number exceeds the pocket count gets *)
(* a load section without sensor-check block: the manual marker followed   *)
(* by the Manual-Fallback routine - except tool 99 with probeLoadGcode     *)
(* configured, which gets the snippet and no Manual-Fallback; the same     *)
(* holds of a current tool beyond the pockets and the unload section.  The *)
(* program as a whole has sensor-check blocks exactly when the current     *)
(* tool or the target tool is a tool of the magazine, and those of the     *)
(* unload section precede M61 Q0.                                          *)
(***************************************************************************)
C16_BeyondPocketsManualSection ==
  Emitted =>
    /\ BeyondPockets(toolNumber) =>
         /\ LinesBlock({300, 301}) = {}
         /\ IF toolNumber = PROBE_TOOL_NUMBER /\ settings.probeLoadGcode # <<>>
              THEN /\ LinesOp({"(probe load)"}) # {}
                   /\ LinesMsg({"MANUAL_LOAD_TOOL", "MANUAL_LOAD_PROBE"}) = {}
              ELSE /\ Cardinality(LinesMsg({ManualLoadCode})) = 1
                   /\ \A k \in LinesMsg({ManualLoadCode}) :
                        /\ FollowedByFallback(k)
                        /\ k + 4 \in LinesAt("M61 Q", toolNumber)
    /\ BeyondPockets(currentTool) =>
         /\ LinesBlock({100, 101}) = {}
         /\ IF currentTool = PROBE_TOOL_NUMBER /\ settings.probeUnloadGcode # <<>>
              THEN /\ LinesOp({"(probe unload)"}) # {}
                   /\ LinesMsg({"MANUAL_UNLOAD_TOOL", "MANUAL_UNLOAD_PROBE"}) = {}
              ELSE /\ Cardinality(LinesMsg({ManualUnloadCode})) = 1
                   /\ \A k \in LinesMsg({ManualUnloadCode}) :
                        /\ FollowedByFallback(k)
                        /\ k + 4 \in LinesAt("M61 Q", 0)
    /\ (SensorCheckAt # {}) <=> (InPocketRange(currentTool) \/ InPocketRange(toolNumber))
    /\ (BeyondPockets(toolNumber) /\ InPocketRange(currentTool)) =>
         \A s \in SensorCheckAt : \A u \in LinesAt("M61 Q", 0) : s < u

\* tool 1 of the magazine is changed for tool 3, beyond the two pockets: the
\* unload has its sensor checks, the load is manual
W_C16_MagazineToolToManual ==
  /\ Emitted /\ InPocketRange(currentTool) /\ BeyondPockets(toolNumber)
  /\ toolNumber # PROBE_TOOL_NUMBER
  /\ SensorCheckAt # {}
  /\ \E k \in LinesMsg({"MANUAL_LOAD_TOOL"}) : FollowedByFallback(k)

\* the lines k.. of the program are the start of the tool-length-setter
\* routine: retract to the safe height, move over the tool setter
TlsStartsAt(k) ==
  /\ k + 1 <= Len(prog)
  /\ prog[k].op = "G53 G0 Z" /\ prog[k].n = settings.zSafe
  /\ k + 1 \in MovesOver(settings.toolSetter)

(***************************************************************************)
(* C17: for target tool 99 with probeLoadGcode configured the load section *)
(* is the snippet, with M61 Q99 before it and the tool-length-setter       *)
(* routine after it, without pocket move, spindle spin, sensor check or    *)
(* Manual-Fallback; with probeLoadGcode empty it is the manual probe       *)
(* marker and the Manual-Fallback, then M61 Q99 and the routine.  For      *)
(* current tool 99 and probeUnloadGcode the same holds of the unload       *)
(* section, which ends with M61 Q0.  The addProbe flag plays no part.      *)
(***************************************************************************)
C17_ProbeToolSnippet ==
  Emitted =>
    /\ toolNumber = PROBE_TOOL_NUMBER =>
         /\ LinesBlock({300, 301}) = {} /\ LinesOp({"M3 S"}) = {}
         /\ InPocketRange(currentTool) =>
              \A p \in PocketMovesAt : \A u \in LinesAt("M61 Q", 0) : p < u
         /\ ~InPocketRange(currentTool) => PocketMovesAt = {}
         /\ LinesOp({"M61 Q"}) \ LinesAt("M61 Q", 0) = LinesAt("M61 Q", PROBE_TOOL_NUMBER)
         /\ IF settings.probeLoadGcode # <<>>
              THEN /\ LinesMsg({"MANUAL_LOAD_PROBE", "MANUAL_LOAD_TOOL"}) = {}
                   /\ Cardinality(LinesOp({"(probe load)"})) = 1
                   /\ \A k \in LinesOp({"(probe load)"}) :
                        /\ k - 1 \in LinesAt("M61 Q", PROBE_TOOL_NUMBER)
                        /\ k - 3 \in LinesOp({"(Load Probe Tool T)"})
                        /\ TlsStartsAt(k + 1)
              ELSE /\ LinesOp({"(probe load)", "(Load Probe Tool T)"}) = {}
                   /\ Cardinality(LinesMsg({"MANUAL_LOAD_PROBE"})) = 1
                   /\ \A k \in LinesMsg({"MANUAL_LOAD_PROBE"}) :
                        /\ FollowedByFallback(k)
                        /\ k + 4 \in LinesAt("M61 Q", PROBE_TOOL_NUMBER)
                        /\ TlsStartsAt(k + 5)
    /\ currentTool = PROBE_TOOL_NUMBER =>
         /\ LinesBlock({100, 101}) = {} /\ LinesOp({"M4 S"}) = {}
         /\ InPocketRange(toolNumber) =>
              \A p \in PocketMovesAt : \A u \in LinesAt("M61 Q", 0) : u < p
         /\ ~InPocketRange(toolNumber) => PocketMovesAt = {}
         /\ IF settings.probeUnloadGcode # <<>>
              THEN /\ LinesMsg({"MANUAL_UNLOAD_PROBE", "MANUAL_UNLOAD_TOOL"}) = {}
                   /\ Cardinality(LinesOp({"(probe unload)"})) = 1
                   /\ \A k \in LinesOp({"(probe unload)"}) :
                        /\ k + 1 \in LinesAt("M61 Q", 0)
                        /\ k - 2 \in LinesOp({"(Unload Probe Tool T)"})
              ELSE /\ LinesOp({"(probe unload)", "(Unload Probe Tool T)"}) = {}
                   /\ Cardinality(LinesMsg({"MANUAL_UNLOAD_PROBE"})) = 1
                   /\ \A k \in LinesMsg({"MANUAL_UNLOAD_PROBE"}) :
                        /\ FollowedByFallback(k)
                        /\ k + 4 \in LinesAt("M61 Q", 0)

\* the probe is loaded by its snippet with the addProbe flag off, after a
\* tool of the magazine was unloaded
W_C17_ProbeLoadedBySnippet ==
  /\ Emitted /\ toolNumber = PROBE_TOOL_NUMBER /\ InPocketRange(currentTool)
  /\ settings.probeLoadGcode # <<>> /\ ~settings.addProbe
  /\ LinesOp({"(probe load)"}) # {}
  /\ TlsAt # {}

\* every line of the first set is before every line of the second
Precede(A, B) == \A a \in A : \A b \in B : a < b
\* the engage and retreat moves of the unload and load routines
EngageAt == LinesOp({"G53 G1 Z F"})

(***************************************************************************)
(* C18: the sections of an emitted tool-change program are in the order    *)
(* start delay (there exactly when atcStartDelay > 0), unload section,     *)
(* load section, tool-length-setter routine, restore of safe height and    *)
(* units, post-tool-change G-code (there exactly when configured): no line *)
(* of a later section is before a line of an earlier one, and M61 Q0 of    *)
(* the unload is before every line and motion of the load.                 *)
(***************************************************************************)
C18_SectionOrder ==
  Emitted =>
    /\ (DelayAt # {}) <=> (settings.atcStartDelay > 0)
    /\ (PostAt # {}) <=> (settings.postToolChangeGcode # <<>>)
    /\ (TlsAt # {}) <=> (toolNumber # 0)
    /\ Cardinality(RestoreAt) = 1
    /\ \A r \in RestoreAt :
         /\ prog[r - 1].op = "G4 P0"
         /\ prog[r - 2].op = "G53 G0 Z" /\ prog[r - 2].n = settings.zSafe
         /\ Precede(DelayAt \cup UnloadAt \cup LoadAt \cup TlsAt, {r - 2})
    /\ Precede(DelayAt, UnloadAt \cup LoadAt \cup TlsAt \cup RestoreAt \cup PostAt)
    /\ Precede(UnloadAt, LoadAt \cup TlsAt \cup RestoreAt \cup PostAt)
    /\ Precede(LoadAt, TlsAt \cup RestoreAt \cup PostAt)
    /\ Precede(TlsAt, RestoreAt \cup PostAt)
    /\ Precede(RestoreAt, PostAt)
    /\ Precede(LinesOp({"M5"}) \cap {k \in 1..Len(prog) : prog[k].ind = 0 /\ k <= 5},
               DelayAt \cup UnloadAt \cup LoadAt)
    /\ currentTool # 0 =>
         /\ Cardinality(LinesAt("M61 Q", 0)) = 1
         /\ \A u \in LinesAt("M61 Q", 0) :
              /\ InPocketRange(toolNumber) =>
                   /\ Cardinality({k \in EngageAt : k > u}) = 6
                   /\ \E k \in MovesOver(calculatePocketPosition(settings, toolNumber)) : k > u
                   /\ Precede({u}, LinesOp({"M3 S"}))
              /\ InPocketRange(currentTool) =>
                   /\ Cardinality({k \in EngageAt : k < u}) = 4
                   /\ \E k \in MovesOver(calculatePocketPosition(settings, currentTool)) : k < u

\* a program with every section: delay, unload of tool 1, load of tool 2 and
\* its tool-length-setter routine, restore, post-tool-change G-code
W_C18_AllSections ==
  /\ Emitted /\ currentTool = 1 /\ toolNumber = 2 /\ settings.pockets >= 2
  /\ DelayAt # {} /\ UnloadAt # {} /\ LoadAt # {} /\ TlsAt # {} /\ RestoreAt # {}
  /\ PostAt # {}

(***************************************************************************)
(* Observations on the expansion of a home command.                        *)
(***************************************************************************)
\* the original $H entry of the given list that the Home handler matches
HomeAt == findToken(given, "$H")
\* the lines of the entries that stand for it in the caller's array after
\* the call
HomeLines == Group(commands, HomeAt)
HomeText == [j \in 1..Len(HomeLines) |-> HomeLines[j].command.text]
\* the condition of the guard of the home program
HomeGuard == "[[#<_tool_offset> EQ 0] AND [#<_current_tool> NE 0]]"
GuardAt(text) ==
  {j \in 1..Len(text) : text[j].op = "o IF" /\ text[j].n = 100 /\ text[j].c = HomeGuard}
EndGuardAt(text) ==
  {j \in 1..Len(text) : text[j].op = "o ENDIF" /\ text[j].n = 100}
\* the instructions of the tool-length-setter routine the handler builds
HomeRoutine ==
  SelectSeq(createToolLengthSetRoutine(
              settings, getToolOffsets(contextTool(context), context.tools).offsets),
            LAMBDA line : line # Blank)
\* the lines of a program that hold an instruction of the routine
RoutineAt(text, routine) ==
  {j \in 1..Len(text) :
     \E k \in 1..Len(routine) :
       /\ text[j].op = routine[k].op
       /\ text[j].n = routine[k].n
       /\ text[j].m = routine[k].m}

(***************************************************************************)
(* C19: after a call on a list with an original $H entry (the first, the   *)
(* one the Home handler matches): when performTlsAfterHome is false the    *)
(* entry is in the list unchanged and still original; when it is true and  *)
(* the call returns, the entry is replaced by a program whose first        *)
(* command is $H and in which every instruction of the tool-length-setter  *)
(* routine lies inside the one block o100, between its IF with the         *)
(* condition "tool-length-offset register is 0 and current tool is not 0"  *)
(* and its ENDIF.                                                          *)
(***************************************************************************)
C19_HomeGuardedRoutine ==
  (calls = 1 /\ HomeAt # 0) =>
    LET lines == HomeLines
        text == HomeText
        routine == HomeRoutine
        guard == GuardAt(text)
        end == EndGuardAt(text)
        inRoutine == RoutineAt(text, routine)
    IN  /\ ~settings.performTlsAfterHome =>
             /\ lines = << given[HomeAt] >>
             /\ given[HomeAt].isOriginal
             /\ ~threw => Group(returned, HomeAt) = << given[HomeAt] >>
        /\ (settings.performTlsAfterHome /\ ~threw) =>
             /\ Len(lines) > 1
             /\ lines = Group(returned, HomeAt)
             /\ \A j \in 1..Len(lines) : ~lines[j].isOriginal
             /\ text[1] = L0("$H")
             /\ Cardinality(guard) = 1 /\ Cardinality(end) = 1
             /\ {j \in 1..Len(text) : text[j].op \in {"o IF", "o ELSE", "o ENDIF"}}
                  = guard \cup end
             /\ \A k \in 1..Len(routine) :
                  \E j \in inRoutine : text[j].op = routine[k].op
             /\ \A r \in inRoutine : \A g \in guard : \A e \in end :
                  g < r /\ r < e /\ text[r].ind > 0

\* a $H with performTlsAfterHome set and tool 1 loaded was expanded, the
\* probe line of the routine among its entries
W_C19_HomeExpanded ==
  /\ calls = 1 /\ ~threw /\ HomeAt # 0 /\ settings.performTlsAfterHome
  /\ contextTool(context) = 1
  /\ Len(HomeLines) > 1
  /\ \E r \in RoutineAt(HomeText, HomeRoutine) : HomeText[r].op = "G38.2 G91 Z- F"

\* a $H with performTlsAfterHome unset came through a call
W_C19_HomeLeftAlone ==
  /\ calls = 1 /\ ~threw /\ HomeAt # 0 /\ ~settings.performTlsAfterHome
  /\ HomeLines = << given[HomeAt] >>

(***************************************************************************)
(* A session of home commands: the host hands each $H to onBeforeCommand   *)
(* and the controller executes what comes back.  The session starts with   *)
(* the tool-length-offset register at 0; a home whose probe cycle failed   *)
(* ends in an alarm, which the operator clears by homing again.            *)
(***************************************************************************)
\* up to MaxHomes home commands are sent in a session
MaxHomes == 3

HomeSettings ==
  { [DefaultSettings EXCEPT !.performTlsAfterHome = tls, !.tlsAuxOutput = aux] :
      tls \in BOOLEAN, aux \in {JsNum(-1), JsStr("M8")} }

\* the lines of the home commands executed so far start where line 1 ran
HomeStartAt == {k \in 1..Len(trace) : trace[k] = 1}
HomesStarted == Cardinality(HomeStartAt)

InitHome ==
  /\ settings \in HomeSettings
  /\ currentTool \in ToolNumbers
  /\ toolNumber = 0
  /\ prog = <<>>
  /\ pc = 0
  /\ run = "idle"
  /\ p5399 = 0
  /\ tlo = 0
  /\ trace = <<>>
  /\ reads = <<>>
  /\ IdleCmd
  /\ IdleCfg
  /\ IdleFn
  /\ IdleHost

\* the operator sends $H: onBeforeCommand expands it (or leaves it) and the
\* controller starts on the lines
SendHome ==
  /\ run \in {"idle", "done", "alarm"}
  /\ HomesStarted < MaxHomes
  /\ LET ctx == [hasMachineState |-> TRUE, tool |-> currentTool,
                 tools |-> [isArray |-> FALSE, rows |-> <<>>]]
         r == onBeforeCommand(<< [Original(L0("$H")) EXCEPT !.src = 1] >>, ctx, settings)
     IN  prog' = [j \in 1..Len(r.list) |-> r.list[j].command.text]
  /\ pc' = 1
  /\ run' = "run"
  /\ UNCHANGED << settings, currentTool, toolNumber, p5399, tlo, trace, reads, cmdVars, cfgVars, fnVars, hostVars >>

NextHome ==
  \/ SendHome
  \/ ExecIf
  \/ ExecOffset
  \/ ExecProbe
  \/ ExecPlain

SpecHome == InitHome /\ [][NextHome]_vars

(***************************************************************************)
(* Observations on a session of home commands.                             *)
(***************************************************************************)
\* the home command (1, 2, ...) that position k of the trace belongs to
HomeOf(k) == Cardinality({s \in HomeStartAt : s <= k})
\* home h is over: a later one has started, or the controller has stopped
HomeOver(h) == h < HomesStarted \/ (h = HomesStarted /\ run \in {"done", "alarm"})
\* the tool-length-setter routine executed on home h: its probe cycle ran
RoutineRanOn(h) ==
  \E k \in 1..Len(trace) : HomeOf(k) = h /\ prog[trace[k]].op = "G38.2 G91 Z- F"
\* the routine ran to its end on home h
RoutineDoneOn(h) ==
  \E k \in 1..Len(trace) : HomeOf(k) = h /\ prog[trace[k]].op = "$#=_tool_offset"
ToolLoadedSession == settings.performTlsAfterHome /\ currentTool # 0

MaxLines == 3

Indented(line, k) == [line EXCEPT !.ind = k]
LineCatalogue ==
  { L0("G0 X0"), Indented(L0("G0 X0"), 2), Blank,
    Line("o IF", 100, 0, "[#1 EQ 0]", ""), L1("o ELSEIF", 100), L1("o ELSE", 100),
    L1("o ENDIF", 100),
    L1("o WHILE", 100), L1("o ENDWHILE", 100), L1("o DO", 100),
    L1("o REPEAT", 100), L1("o ENDREPEAT", 100),
    L1("o SUB", 100), L1("o ENDSUB", 100) }

\* gcode.split('\n').map(line => line.trim()).filter(line => line !== '')
InitFmt ==
  /\ \E k \in 0..MaxLines : \E text \in [1..k -> LineCatalogue] :
       fmtLines = dropBlank([j \in 1..k |-> trim(text[j])])
  /\ formatted = <<>>
  /\ indentLevel = 0
  /\ settings = DefaultSettings
  /\ IdleCtl
  /\ IdleCmd
  /\ IdleCfg
  /\ IdlePos
  /\ IdleHost

\* one iteration of for (const line of lines)
FormatLine ==
  /\ Len(formatted) < Len(fmtLines)
  /\ LET line == fmtLines[Len(formatted) + 1]
     IN  /\ formatted' = Append(formatted, Indented(line, indentBefore(line, indentLevel)))
         /\ indentLevel' = indentAfter(line, indentLevel)
  /\ UNCHANGED << settings, ctlVars, cmdVars, cfgVars, pos, fmtLines, hostVars >>

NextFmt == FormatLine

SpecFmt == InitFmt /\ [][NextFmt]_vars

\* formatGCode has returned
Formatted == Len(formatted) = Len(fmtLines)

(***************************************************************************)
(* C21: formatGCode never emits a line with negative indentation: for      *)
(* every input, unbalanced input with more closing keywords than opening   *)
(* ones included, the indent counter is >= 0 at every line.                *)
(***************************************************************************)
C21_IndentNeverNegative ==
  /\ indentLevel >= 0
  /\ \A j \in 1..Len(formatted) : formatted[j].ind >= 0
  /\ Formatted => formatted = formatGCode(fmtLines)

\* an ENDIF and an ELSE with no IF before them have been formatted
W_C21_ClosingWithoutOpening ==
  /\ Formatted
  /\ Len(formatted) >= 2
  /\ formatted[1].op = "o ENDIF" /\ formatted[2].op = "o ELSE"
  /\ formatted[1].ind = 0 /\ formatted[2].ind = 0

(***************************************************************************)
(* Observations on the spin commands of an emitted tool-change program.    *)
(***************************************************************************)
SpinAt == LinesOp({"M3 S", "M4 S"})
WaitAt == LinesOp({"G65P6"})
\* the M5 that ends the spin started at line k
StopAfter(k) ==
  LET js == {j \in (k + 1)..Len(prog) : prog[j].op = "M5"}
  IN  IF js = {} THEN 0 ELSE CHOOSE j \in js : \A i \in js : j <= i

(***************************************************************************)
(* C22 (as claimed): in every emitted unload and load routine, when        *)
(* spindleAtSpeed is false a wait-for-speed instruction (G65P6) is emitted *)
(* immediately before and immediately after each spin command (M3/M4), and *)
(* when spindleAtSpeed is true no wait-for-speed instruction is emitted.   *)
(***************************************************************************)
C22_WaitAroundSpin ==
  Emitted =>
    IF settings.spindleAtSpeed
      THEN WaitAt = {}
      ELSE \A k \in SpinAt : prog[k - 1].op = "G65P6" /\ prog[k + 1].op = "G65P6"

(***************************************************************************)
(* C22 (amended): when spindleAtSpeed is false a G65P6 is emitted          *)
(* immediately before each spin command (M3/M4) and another one after the  *)
(* engage and retreat moves that follow the spin command, immediately      *)
(* before the M5 that stops the spindle, and these are all the G65P6 there *)
(* are; when spindleAtSpeed is true no G65P6 is emitted at all.            *)
(***************************************************************************)
C22_WaitBeforeSpinAndBeforeStop ==
  Emitted =>
    IF settings.spindleAtSpeed
      THEN WaitAt = {}
      ELSE /\ \A k \in SpinAt :
                LET stop == StopAfter(k)
                IN  /\ prog[k - 1].op = "G65P6"
                    /\ stop > k + 2
                    /\ prog[stop - 1].op = "G65P6"
                    /\ \A j \in (k + 1)..(stop - 2) : prog[j].op = "G53 G1 Z F"
           /\ WaitAt = {k - 1 : k \in SpinAt} \cup {StopAfter(k) - 1 : k \in SpinAt}
           /\ Cardinality(WaitAt) = 2 * Cardinality(SpinAt)

\* a change between two tools of the magazine with spindleAtSpeed false: the
\* unload spins (M4) and the load spin (M3), each with its two waits
W_C22_WaitsEmitted ==
  /\ Emitted /\ ~settings.spindleAtSpeed
  /\ InPocketRange(currentTool) /\ InPocketRange(toolNumber)
  /\ Cardinality(SpinAt) = 3
  /\ Cardinality(WaitAt) = 6

(***************************************************************************)
(* The host wrapper's onBeforeCommand handler (index.js).  An invocation   *)
(* is [pc, list, tools, fetch, fetchAtCall, toolsAtCall, threw]:           *)
(*   pc: "idle", "fetching" (suspended at await fetch), "json" (suspended  *)
(*       at await response.json()), "fetched" (fetchTools has returned,    *)
(*       the handler is to be resumed), "returned"                         *)
(*   list: the caller's command array                                      *)
(*   tools: what fetchTools returned                                       *)
(*   fetch: "none", "pending", "ok", "failed"                              *)
(*   fetchAtCall, toolsAtCall: fetch and the tools handed to the engine,   *)
(*       as they were when the engine was called ("none": not called)      *)
(* Invocations are interleaved at their suspension points only.            *)
(***************************************************************************)
\* up to MaxInFlight invocations of the handler are in flight together
MaxInFlight == 2

EmptyTable == [isArray |-> TRUE, rows |-> <<>>]
\* what GET /api/tools may answer with: a table, an empty one, not an array
ToolTables ==
  { [isArray |-> TRUE, rows |-> << ToolRow(1, 1, 2, 3) >>],
    EmptyTable,
    [isArray |-> FALSE, rows |-> <<>>] }
\* a promise that has not been awaited is no array
PendingPromise == [isArray |-> FALSE, rows |-> <<>>]

HostLists ==
  { << [Original(L1("T M6", 1)) EXCEPT !.src = 1] >>,
    << [Original(L0("$H")) EXCEPT !.src = 1], [Original(L0("G0 X0")) EXCEPT !.src = 2] >> }

NewInvocation(list) ==
  [pc |-> "idle", list |-> list, tools |-> EmptyTable, fetch |-> "none",
   fetchAtCall |-> "none", toolsAtCall |-> EmptyTable, threw |-> FALSE]

InitHost ==
  /\ configured \in BOOLEAN
  /\ settings \in { [DefaultSettings EXCEPT !.performTlsAfterHome = tls] : tls \in BOOLEAN }
  /\ \E k \in 1..MaxInFlight : inflight \in [1..k -> {NewInvocation(l) : l \in HostLists}]
  /\ IdleDlg
  /\ IdleRld
  /\ IdleCtl
  /\ IdleCmd
  /\ IdleCfg
  /\ IdleFn

\* the handler up to its await: unconfigured, it returns the commands as
\* they are; configured, it calls fetchTools, which suspends at fetch
HandlerStart(h) ==
  /\ inflight[h].pc = "idle"
  /\ inflight' = [inflight EXCEPT ![h] =
                    IF configured
                      THEN [@ EXCEPT !.pc = "fetching", !.fetch = "pending"]
                      ELSE [@ EXCEPT !.pc = "returned"]]
  /\ UNCHANGED << settings, configured, ctlVars, cmdVars, cfgVars, fnVars, dlgVars, rldVars >>

\* fetch settles: a response that is ok, one that is not, or a rejection,
\* which fetchTools catches; in the last two cases it returns []
FetchSettles(h) ==
  /\ inflight[h].pc = "fetching"
  /\ \E outcome \in {"ok", "status", "rejected"} :
       inflight' = [inflight EXCEPT ![h] =
                      IF outcome = "ok"
                        THEN [@ EXCEPT !.pc = "json"]
                        ELSE [@ EXCEPT !.pc = "fetched", !.fetch = "failed",
                                       !.tools = EmptyTable]]
  /\ UNCHANGED << settings, configured, ctlVars, cmdVars, cfgVars, fnVars, dlgVars, rldVars >>

\* response.json() settles: the parsed body, or a rejection caught likewise
JsonSettles(h) ==
  /\ inflight[h].pc = "json"
  /\ \/ \E table \in ToolTables :
          inflight' = [inflight EXCEPT ![h] =
                         [@ EXCEPT !.pc = "fetched", !.fetch = "ok", !.tools = table]]
     \/ inflight' = [inflight EXCEPT ![h] =
                       [@ EXCEPT !.pc = "fetched", !.fetch = "failed", !.tools = EmptyTable]]
  /\ UNCHANGED << settings, configured, ctlVars, cmdVars, cfgVars, fnVars, dlgVars, rldVars >>

\* await fetchTools(ctx): the handler goes on once fetchTools has returned
Resumable_NoAwait(inv) == inv.pc \in {"fetching", "json", "fetched"}

Resumable(inv) == inv.pc = "fetched"

\* the rest of the handler, run to its end without a suspension point:
\* enrichedContext = { ...context, tools }, onBeforeCommand(...)
CallEngine(h) ==
  /\ Resumable(inflight[h])
  /\ LET inv == inflight[h]
         tools == IF inv.pc = "fetched" THEN inv.tools ELSE PendingPromise
         enrichedContext == [hasMachineState |-> TRUE, tool |-> 1, tools |-> tools]
         r == onBeforeCommand(inv.list, enrichedContext, settings)
     IN  inflight' = [inflight EXCEPT ![h] =
                        [@ EXCEPT !.pc = "returned", !.list = r.list, !.threw = r.threw,
                                  !.fetchAtCall = inv.fetch, !.toolsAtCall = tools]]
  /\ UNCHANGED << settings, configured, ctlVars, cmdVars, cfgVars, fnVars, dlgVars, rldVars >>

NextHost ==
  \E h \in 1..Len(inflight) :
    \/ HandlerStart(h)
    \/ FetchSettles(h)
    \/ JsonSettles(h)
    \/ CallEngine(h)

SpecHost == InitHost /\ [][NextHost]_vars

\* the engine was called in invocation h
EngineCalled(h) == inflight[h].fetchAtCall # "none"
\* a step changes the command array of invocation h
ListChanges(h) == inflight'[h].list # inflight[h].list

(***************************************************************************)
(* C23: in the host's onBeforeCommand handler the fetch of the tool-offset *)
(* table has completed, or failed and been replaced by an empty table,     *)
(* before the engine is called, and the engine call has no suspension      *)
(* point: the step that locates a trigger is the step that splices its     *)
(* expansion, and no other invocation moves in it.                         *)
(***************************************************************************)
C23_FetchBeforeEngine ==
  /\ [](\A h \in 1..Len(inflight) :
          /\ EngineCalled(h) =>
               /\ inflight[h].fetchAtCall \in {"ok", "failed"}
               /\ inflight[h].toolsAtCall = inflight[h].tools
               /\ inflight[h].fetchAtCall = "failed" => inflight[h].toolsAtCall = EmptyTable
          /\ inflight[h].pc # "returned" => ~EngineCalled(h))
  /\ [][\A h \in 1..Len(inflight) :
          ListChanges(h) =>
            /\ inflight[h].pc = "fetched" /\ inflight'[h].pc = "returned"
            /\ \A g \in (1..Len(inflight)) \ {h} : inflight'[g] = inflight[g]]_vars

\* two invocations were in flight together: the first expanded its M6 with
\* the table it fetched while the second was still suspended at its fetch
W_C23_ExpandedWhileOtherSuspended ==
  /\ Len(inflight) = 2
  /\ inflight[1].pc = "returned" /\ inflight[1].fetchAtCall = "ok"
  /\ Len(inflight[1].list) > 1
  /\ inflight[2].pc = "fetching"

\* the positions of the trace at which a marker comment ran, whatever its code
AnyMarkerAt == {k \in 1..Len(trace) : prog[trace[k]].op = "(MSG, PLUGIN_RAPIDCHANGEATC:)"}
MarkerCodesRun == {prog[trace[k]].c : k \in AnyMarkerAt}

(***************************************************************************)
(* C24: on every execution on which a failure or manual marker is run, the *)
(* marker is followed in the program by the retract, the move to the       *)
(* manual tool position and M0; these are the next three lines run, the    *)
(* controller holds when M0 has run, and no line runs while it holds: the  *)
(* pause is reached before any later instruction (M61, the TLS routine,    *)
(* the next section).                                                      *)
(***************************************************************************)
C24_MarkerThenMoveThenPause ==
  /\ [](\A k \in AnyMarkerAt :
          /\ FollowedByFallback(trace[k])
          /\ \A j \in (k + 1)..Len(trace) : j <= k + 3 => trace[j] = trace[k] + (j - k))
  /\ [][\A k \in AnyMarkerAt :
          (Len(trace) = k + 2 /\ Len(trace') = k + 3) => run' = "hold"]_vars
  /\ [][Len(trace') > Len(trace) => run # "hold"]_vars

\* a probe was taken out by hand: marker, pause, continued, and the program
\* went on to the lines after the pause
W_C24_ContinuedAfterPause ==
  \E k \in MarkerAt("MANUAL_UNLOAD_PROBE") :
    /\ Len(trace) > k + 3
    /\ prog[trace[k + 3]].op = "M0"

(***************************************************************************)
(* Observations on the conditional blocks of a returned list.              *)
(***************************************************************************)
\* the lines of the entries of the returned list
ReturnedText == [j \in 1..Len(returned) |-> returned[j].command.text]
OpensOf(text, o) == {j \in 1..Len(text) : text[j].op = "o IF" /\ text[j].n = o}
ClosesOf(text, o) == {j \in 1..Len(text) : text[j].op = "o ENDIF" /\ text[j].n = o}
BlockIds(text) ==
  {text[j].n : j \in {i \in 1..Len(text) : text[i].op \in {"o IF", "o ELSE", "o ENDIF"}}}
\* every id is opened once and closed once, the IF before the ENDIF
OneBlockPerId(text) ==
  \A o \in BlockIds(text) :
    /\ Cardinality(OpensOf(text, o)) = 1
    /\ Cardinality(ClosesOf(text, o)) = 1
    /\ \A i \in OpensOf(text, o), e \in ClosesOf(text, o) : i < e
\* no block begins inside another and ends outside it
ProperlyNested(text) ==
  \A a \in BlockIds(text), b \in BlockIds(text) :
    \A ia \in OpensOf(text, a), ea \in ClosesOf(text, a),
       ib \in OpensOf(text, b), eb \in ClosesOf(text, b) :
      ~(ia < ib /\ ib < ea /\ ea < eb)

(***************************************************************************)
(* C25: in the list one call returns, every block id is opened by exactly  *)
(* one IF and closed by exactly one ENDIF with the same id, the blocks are *)
(* properly nested and no id is used by two blocks, also when the list     *)
(* held both a $H (performTlsAfterHome set) and an M6.                     *)
(***************************************************************************)
C25_BlockIdsUnique ==
  (calls = 1 /\ ~threw) =>
    LET text == ReturnedText
    IN  OneBlockPerId(text) /\ ProperlyNested(text)

\* the same, of a list with no $H to expand: the blocks of one tool-change
\* program alone
C25_BlockIdsUniqueWithoutHome ==
  (calls = 1 /\ ~threw /\ ~(HomeAt # 0 /\ settings.performTlsAfterHome)) =>
    LET text == ReturnedText
    IN  OneBlockPerId(text) /\ ProperlyNested(text)

(***************************************************************************)
(* Observations on the nesting of the text given to formatGCode.           *)
(***************************************************************************)
\* the opening line a closing line ends
Closes(op) ==
  CASE op = "o ENDIF" -> "o IF"
    [] op = "o ENDWHILE" -> "o WHILE"
    [] op = "o ENDREPEAT" -> "o REPEAT"
    [] op = "o ENDSUB" -> "o SUB"
    [] OTHER -> ""
\* the role and the depth of each line of a text read with the stack of the
\* blocks open so far, and whether the text is well nested: every closing
\* line ends the block opened last (a WHILE ends a DO opened last), an
\* ELSE or ELSEIF stands in an IF, no block is left open
RECURSIVE nesting(_, _)
nesting(lines, stack) ==
  IF lines = <<>> THEN [ok |-> stack = <<>>, at |-> <<>>]
  ELSE LET op == Head(lines).op
           d == Len(stack)
           top == IF d = 0 THEN "" ELSE stack[d]
           pop == SubSeq(stack, 1, d - 1)
           step ==
             IF op = "o WHILE" /\ top = "o DO"
               THEN [ok |-> TRUE, role |-> "close", depth |-> d - 1, stack |-> pop]
             ELSE IF op \in {"o IF", "o WHILE", "o DO", "o REPEAT", "o SUB"}
               THEN [ok |-> TRUE, role |-> "open", depth |-> d, stack |-> Append(stack, op)]
             ELSE IF op \in {"o ELSE", "o ELSEIF"}
               THEN [ok |-> top = "o IF", role |-> "else", depth |-> d - 1, stack |-> stack]
             ELSE IF Closes(op) # ""
               THEN [ok |-> top = Closes(op), role |-> "close", depth |-> d - 1, stack |-> pop]
             ELSE [ok |-> TRUE, role |-> "plain", depth |-> d, stack |-> stack]
           rest == nesting(Tail(lines), step.stack)
       IN  [ok |-> step.ok /\ rest.ok,
            at |-> << [role |-> step.role, depth |-> step.depth] >> \o rest.at]
\* the opening line of the block that the closing line j of a well-nested
\* text ends
OpeningOf(at, j) ==
  CHOOSE i \in 1..(j - 1) :
    /\ at[i].role = "open" /\ at[i].depth = at[j].depth
    /\ \A k \in (i + 1)..(j - 1) : ~(at[k].role = "open" /\ at[k].depth = at[j].depth)

(***************************************************************************)
(* C26: for well-nested input formatGCode emits the same non-empty lines   *)
(* in the same order, only their leading whitespace changed; each closing  *)
(* line (ENDIF, ENDWHILE, ENDREPEAT, ENDSUB) is at the indentation of its  *)
(* opening line (IF, WHILE, DO, REPEAT, SUB); and the indent counter is    *)
(* zero after the last line.                                               *)
(***************************************************************************)
C26_WellNestedIndentation ==
  LET nest == nesting(fmtLines, <<>>)
  IN  (Formatted /\ nest.ok) =>
        /\ \A j \in 1..Len(fmtLines) : Indented(formatted[j], 0) = Indented(fmtLines[j], 0)
        /\ \A j \in 1..Len(fmtLines) :
             nest.at[j].role = "close" =>
               formatted[j].ind = formatted[OpeningOf(nest.at, j)].ind
        /\ indentLevel = 0

\* the same, of texts whose blocks are IF / ELSE / ENDIF, WHILE / ENDWHILE and
\* SUB / ENDSUB only
C26_WithoutRepeatDoElseif ==
  LET nest == nesting(fmtLines, <<>>)
  IN  (/\ Formatted /\ nest.ok
       /\ \A j \in 1..Len(fmtLines) :
            fmtLines[j].op \notin {"o REPEAT", "o ENDREPEAT", "o DO", "o ELSEIF"}) =>
        /\ \A j \in 1..Len(fmtLines) : Indented(formatted[j], 0) = Indented(fmtLines[j], 0)
        /\ \A j \in 1..Len(fmtLines) :
             nest.at[j].role = "close" =>
               formatted[j].ind = formatted[OpeningOf(nest.at, j)].ind
        /\ indentLevel = 0

(***************************************************************************)
(* The host wrapper's recovery dialogs (index.js).  A text is the sequence *)
(* of its pieces: "LF" is a line feed, "BACKSLASH_N" the two characters    *)
(* backslash and n, " " white space, any other piece visible characters.   *)
(* A command is a text too.                                                *)
(***************************************************************************)
\* texts of up to MaxPieces pieces are configured as abort G-code
MaxPieces == 3
\* up to MaxReports messages are reported, up to MaxClicks clicks are made
MaxReports == 2
MaxClicks == 3

Pieces == {"M5", "M9", " ", "LF", "BACKSLASH_N"}
WhiteSpace == {" ", "LF"}

RECURSIVE trimStart(_)
trimStart(text) ==
  IF text # <<>> /\ Head(text) \in WhiteSpace THEN trimStart(Tail(text)) ELSE text
RECURSIVE trimEnd(_)
trimEnd(text) ==
  IF text # <<>> /\ text[Len(text)] \in WhiteSpace
    THEN trimEnd(SubSeq(text, 1, Len(text) - 1))
    ELSE text
\* String.prototype.trim
trimText(text) == trimEnd(trimStart(text))

\* String.prototype.split(separator), the separator one piece
RECURSIVE splitText(_, _)
splitText(text, separator) ==
  IF \A j \in 1..Len(text) : text[j] # separator THEN << text >>
  ELSE LET j == CHOOSE i \in 1..Len(text) :
                  text[i] = separator /\ \A h \in 1..(i - 1) : text[h] # separator
       IN  << SubSeq(text, 1, j - 1) >> \o splitText(SubSeq(text, j + 1, Len(text)), separator)

\* abortEventGcode ? abortEventGcode.trim().split('\\n').filter(line => line.trim()) : []
\* the separator written '\\n' is backslash and n, not a line feed
abortGcodeLines(text) ==
  IF text = <<>> THEN <<>>
  ELSE SelectSeq(splitText(trimText(text), "BACKSLASH_N"), LAMBDA line : trimText(line) # <<>>)

\* the marker codes the engine's programs carry
EngineMarkerCodes ==
  {"FAILED_UNLOAD_TOOL", "FAILED_LOAD_TOOL", "MANUAL_UNLOAD_TOOL", "MANUAL_LOAD_TOOL",
   "MANUAL_UNLOAD_PROBE", "MANUAL_LOAD_PROBE"}
\* the keys of MESSAGE_MAP, in the order of Object.entries
MESSAGE_MAP ==
  << "FAILED_UNLOAD_TOOL", "FAILED_LOAD_TOOL", "MANUAL_UNLOAD_TOOL", "MANUAL_LOAD_TOOL" >>

\* what arrives on 'ws:cnc-data': [isString, lowerCase, msg, plugin, codes]
\*   msg: the text holds "[MSG"; plugin: it holds "PLUGIN_RAPIDCHANGEATC:"
\*   codes: the marker codes it holds after that prefix
Data(isString, lowerCase, msg, codes) ==
  [isString |-> isString, lowerCase |-> lowerCase, msg |-> msg,
   plugin |-> codes # {}, codes |-> codes]
DataCatalogue ==
  { Data(TRUE, FALSE, TRUE, {code}) : code \in EngineMarkerCodes }
  \cup { Data(TRUE, TRUE, TRUE, {"FAILED_LOAD_TOOL"}),
         Data(TRUE, FALSE, FALSE, {"FAILED_LOAD_TOOL"}),
         Data(FALSE, FALSE, TRUE, {"MANUAL_LOAD_TOOL"}),
         Data(TRUE, FALSE, TRUE, {}),
         Data(TRUE, FALSE, TRUE, {"FAILED_UNLOAD_TOOL", "MANUAL_LOAD_TOOL"}) }
\* data.toUpperCase()
toUpperCaseData(data) == [data EXCEPT !.lowerCase = FALSE]
\* upperData.includes(code), the code in capitals
includesCode(data, code) == ~data.lowerCase /\ data.plugin /\ code \in data.codes
\* the first key of MESSAGE_MAP the data includes, 0 if none
matchedCode(upperData) ==
  IF \E k \in 1..Len(MESSAGE_MAP) : includesCode(upperData, MESSAGE_MAP[k])
    THEN CHOOSE k \in 1..Len(MESSAGE_MAP) :
           /\ includesCode(upperData, MESSAGE_MAP[k])
           /\ \A h \in 1..(k - 1) : ~includesCode(upperData, MESSAGE_MAP[h])
    ELSE 0

SoftReset == << "0x18" >>
ClearMessage == << "$NCSENDER_CLEAR_MSG" >>
CycleStart == << "~" >>

InitDlg ==
  /\ \E k \in 0..MaxPieces : abortEventGcode \in [1..k -> Pieces]
  /\ reported = <<>>
  /\ dialogs = <<>>
  /\ sent = <<>>
  /\ clicks = 0
  /\ settings = DefaultSettings
  /\ IdleHandler
  /\ IdleRld
  /\ IdleCtl
  /\ IdleCmd
  /\ IdleCfg
  /\ IdleFn

\* showSafetyWarningDialog: the modal with its two buttons enabled
showSafetyWarningDialog(code, text, from) ==
  [code |-> code, from |-> from, abortGcodeLines |-> abortGcodeLines(text),
   abortDisabled |-> FALSE, continueDisabled |-> FALSE]

\* the 'ws:cnc-data' handler, on one piece of data
OnCncData ==
  /\ Len(reported) < MaxReports
  /\ \E data \in DataCatalogue :
       /\ reported' = Append(reported, data)
       /\ LET upperData == toUpperCaseData(data)
              k == matchedCode(upperData)
          IN  dialogs' =
                IF data.isString /\ upperData.msg /\ upperData.plugin /\ k # 0
                  THEN Append(dialogs,
                              showSafetyWarningDialog(MESSAGE_MAP[k], abortEventGcode,
                                                      Len(reported) + 1))
                  ELSE dialogs
  /\ UNCHANGED << settings, ctlVars, cmdVars, cfgVars, fnVars, configured, inflight,
                  rldVars, abortEventGcode, sent, clicks >>

Post(d, cmds) == [j \in 1..Len(cmds) |-> [by |-> d, command |-> cmds[j]]]

\* the click listener of the Abort button of dialog d
ClickAbort(d) ==
  /\ clicks < MaxClicks
  /\ clicks' = clicks + 1
  /\ IF dialogs[d].abortDisabled
       THEN UNCHANGED << dialogs, sent >>
       ELSE /\ dialogs' = [dialogs EXCEPT ![d].abortDisabled = TRUE,
                                          ![d].continueDisabled = TRUE]
            /\ sent' = sent \o Post(d, dialogs[d].abortGcodeLines
                                          \o << SoftReset, ClearMessage >>)
  /\ UNCHANGED << settings, ctlVars, cmdVars, cfgVars, fnVars, configured, inflight,
                  rldVars, abortEventGcode, reported >>

\* the click listener of the Continue button of dialog d
ClickContinue(d) ==
  /\ clicks < MaxClicks
  /\ clicks' = clicks + 1
  /\ IF dialogs[d].continueDisabled
       THEN UNCHANGED << dialogs, sent >>
       ELSE /\ dialogs' = [dialogs EXCEPT ![d].abortDisabled = TRUE,
                                          ![d].continueDisabled = TRUE]
            /\ sent' = sent \o Post(d, << CycleStart, ClearMessage >>)
  /\ UNCHANGED << settings, ctlVars, cmdVars, cfgVars, fnVars, configured, inflight,
                  rldVars, abortEventGcode, reported >>

NextDlg ==
  \/ OnCncData
  \/ \E d \in 1..Len(dialogs) : ClickAbort(d)
  \/ \E d \in 1..Len(dialogs) : ClickContinue(d)

SpecDlg == InitDlg /\ [][NextDlg]_vars

\* the message carries a marker code of the engine, as the controller
\* reports it: a string with [MSG and the plugin's prefix
CarriesMarker(data) ==
  data.isString /\ data.msg /\ data.plugin /\ data.codes \cap EngineMarkerCodes # {}
DialogsFor(j) == {d \in 1..Len(dialogs) : dialogs[d].from = j}

(***************************************************************************)
(* C27: for every marker code the engine can emit, the 'ws:cnc-data'       *)
(* handler opens a recovery dialog when a message carrying the code is     *)
(* reported, exactly one dialog per reported message.                      *)
(***************************************************************************)
C27_DialogPerMarker ==
  \A j \in 1..Len(reported) :
    CarriesMarker(reported[j]) => Cardinality(DialogsFor(j)) = 1

\* the same, of the four codes that are keys of MESSAGE_MAP; any other data
\* opens no dialog
C27_DialogPerMappedMarker ==
  \A j \in 1..Len(reported) :
    Cardinality(DialogsFor(j)) =
      IF /\ CarriesMarker(reported[j])
         /\ \E k \in 1..Len(MESSAGE_MAP) : MESSAGE_MAP[k] \in reported[j].codes
        THEN 1 ELSE 0

\* the commands dialog d has posted, in order
SentBy(d) ==
  LET mine == SelectSeq(sent, LAMBDA m : m.by = d)
  IN  [j \in 1..Len(mine) |-> mine[j].command]
TrimEach(lines) == [j \in 1..Len(lines) |-> trimText(lines[j])]
\* the lines of a text that are not blank, as an operator reads them
ConfiguredLines(text) ==
  TrimEach(SelectSeq(splitText(text, "LF"), LAMBDA line : trimText(line) # <<>>))
\* what the buttons of dialog d have done so far is nothing, one Abort or
\* one Continue, and both buttons are disabled from the first click on
OneActionOnce(d, abortLines) ==
  LET commandsSent == SentBy(d)
      n == Len(commandsSent)
  IN  /\ dialogs[d].abortDisabled = dialogs[d].continueDisabled
      /\ dialogs[d].abortDisabled = (n > 0)
      /\ \/ n = 0
         \/ /\ n = Len(abortLines) + 2
            /\ TrimEach(SubSeq(commandsSent, 1, n - 2)) = abortLines
            /\ commandsSent[n - 1] = SoftReset /\ commandsSent[n] = ClearMessage
         \/ commandsSent = << CycleStart, ClearMessage >>

(***************************************************************************)
(* C28: in a recovery dialog both buttons are disabled after the first     *)
(* click on Abort or Continue, so exactly one action sends its commands,   *)
(* once: Abort the configured abort G-code lines, then the soft reset,     *)
(* then the clear-message command; Continue the cycle start, then the      *)
(* clear-message command.  Stated of configured texts in which no          *)
(* backslash stands.                                                       *)
(***************************************************************************)
C28_OneActionOnceConfiguredLines ==
  (\A j \in 1..Len(abortEventGcode) : abortEventGcode[j] # "BACKSLASH_N") =>
    \A d \in 1..Len(dialogs) : OneActionOnce(d, ConfiguredLines(abortEventGcode))

\* the same, with the commands the dialog was built with in the place of
\* the lines of the configured text
C28_OneActionOnceBuiltLines ==
  \A d \in 1..Len(dialogs) : OneActionOnce(d, TrimEach(dialogs[d].abortGcodeLines))

\* Abort was clicked, then Continue and Abort again: the later clicks sent
\* nothing
W_C28_LaterClicksIgnored ==
  /\ clicks = 3 /\ Len(dialogs) = 1
  /\ abortEventGcode = << "M5" >>
  /\ SentBy(1) = << << "M5" >>, SoftReset, ClearMessage >>

(***************************************************************************)
(* Observations on the trigger kinds of a list.                            *)
(***************************************************************************)
TriggerKinds == {"$H", "$TLS", "$POCKET1", "M6"}
IsOfKind(cmd, kind) == IF kind = "M6" THEN isM6Entry(cmd) ELSE isTokenEntry(cmd, kind)
OfKind(kind) == {i \in 1..Len(given) : IsOfKind(given[i], kind)}
\* the first entry of each kind the given list holds
Firsts ==
  {i \in 1..Len(given) :
     \E kind \in TriggerKinds : i \in OfKind(kind) /\ \A j \in OfKind(kind) : i <= j}
KindsHeld == {kind \in TriggerKinds : OfKind(kind) # {}}

(***************************************************************************)
(* C29 (as claimed), of a call that returns: one call expands at most one  *)
(* entry per trigger kind:                                                 *)
(* of two original entries of the same kind only the first is replaced,    *)
(* the second is returned unexpanded and still original; when the list     *)
(* holds triggers of different kinds, the first of each kind is expanded   *)
(* in the same call.                                                       *)
(***************************************************************************)
C29_FirstOfEachKind ==
  (calls = 1 /\ ~threw) =>
    /\ \A i \in Triggers \ Firsts :
         Group(returned, i) = << given[i] >> /\ given[i].isOriginal
    /\ Cardinality(KindsHeld) >= 2 => Expanded = Firsts

(***************************************************************************)
(* C29 (amended): one call replaces no entry but the first of each trigger *)
(* kind, and every later entry of a kind stays in the list unexpanded and  *)
(* still original, also when the call raises an exception; when the call   *)
(* returns, the first of each kind has been replaced in that call, except  *)
(* a $H when performTlsAfterHome is unset, which is left as it is.         *)
(***************************************************************************)
C29_FirstOfEachKindUnlessHomeLeftAlone ==
  calls = 1 =>
    /\ Expanded \subseteq Firsts
    /\ \A i \in Triggers \ Firsts :
         Group(commands, i) = << given[i] >> /\ given[i].isOriginal
    /\ ~threw =>
         /\ returned = commands
         /\ Expanded = {i \in Firsts : ~HomeLeftAlone(i)}

\* two M6 around a $TLS: the first M6 and the $TLS were expanded, the second
\* M6 was returned as given
W_C29_SecondM6LeftFirstOfEachExpanded ==
  /\ calls = 1 /\ ~threw /\ Len(given) = 3
  /\ isM6Entry(given[1]) /\ isTokenEntry(given[2], "$TLS") /\ isM6Entry(given[3])
  /\ Expanded = {1, 2}
  /\ Group(returned, 3) = << given[3] >>

(***************************************************************************)
(* Hot reload (index.js): the host calls onUnload of the old instance and  *)
(* onLoad of the new one without waiting for either.  Each sends one PATCH *)
(* /api/settings with a whole "tool" object; onLoad sends its own after a  *)
(* timer of 100 ms.  A request in network is [from, body, state], state    *)
(* "sent", "ok" (answered with an ok status, the body stored), "failed"    *)
(* (answered with another status, or the fetch rejected).                  *)
(***************************************************************************)
\* the clock runs up to MaxClock ticks of TickMs milliseconds
MaxClock == 4
TickMs == 50
LoadDelayMs == 100
ReloadPockets == {0, 4, 8}
PluginId == "com.ncsender.rapidchangeatc"

\* the body of onLoad's PATCH
LoadTool(r) ==
  [count |-> r.pockets, source |-> PluginId, manual |-> r.isConfigured,
   tls |-> r.isConfigured, probe |-> r.addProbe]
\* the body of onUnload's PATCH
ResetTool == [count |-> 0, source |-> "null", manual |-> FALSE, tls |-> FALSE, probe |-> FALSE]

InitReload ==
  /\ \E pockets \in ReloadPockets, hasPocket1 \in BOOLEAN, addProbe \in BOOLEAN :
       reload = [onUnload |-> "idle", onLoad |-> "idle", deadline |-> 0,
                 pockets |-> pockets, isConfigured |-> (hasPocket1 /\ pockets # 0),
                 addProbe |-> addProbe]
  /\ network = {}
  /\ toolSettings \in {NoTool, LoadTool(reload)}
  /\ clock = 0
  /\ settings = DefaultSettings
  /\ IdleHandler
  /\ IdleDlg
  /\ IdleCtl
  /\ IdleCmd
  /\ IdleCfg
  /\ IdleFn

ReloadFrame ==
  UNCHANGED << settings, ctlVars, cmdVars, cfgVars, fnVars, configured, inflight, dlgVars >>

\* onUnload up to its await: the PATCH is sent at once
OnUnloadCall ==
  /\ reload.onUnload = "idle"
  /\ reload' = [reload EXCEPT !.onUnload = "awaiting"]
  /\ network' = network \cup {[from |-> "onUnload", body |-> ResetTool, state |-> "sent"]}
  /\ UNCHANGED << toolSettings, clock >>
  /\ ReloadFrame

\* onLoad up to its first await: setTimeout(resolve, 100)
OnLoadCall ==
  /\ reload.onLoad = "idle"
  /\ reload' = [reload EXCEPT !.onLoad = "timer",
                              !.deadline = clock + (LoadDelayMs \div TickMs)]
  /\ UNCHANGED << network, toolSettings, clock >>
  /\ ReloadFrame

Tick ==
  /\ clock < MaxClock
  /\ clock' = clock + 1
  /\ UNCHANGED << reload, network, toolSettings >>
  /\ ReloadFrame

TimerDue(r, now) == now >= r.deadline

\* the timer has run out: onLoad sends its PATCH
OnLoadTimer ==
  /\ reload.onLoad = "timer"
  /\ TimerDue(reload, clock)
  /\ reload' = [reload EXCEPT !.onLoad = "awaiting"]
  /\ network' = network \cup {[from |-> "onLoad", body |-> LoadTool(reload), state |-> "sent"]}
  /\ UNCHANGED << toolSettings, clock >>
  /\ ReloadFrame

\* the host's server answers a request, whichever it takes first: it
\* stores the tool object and answers ok, or answers with an error status,
\* or the fetch rejects
ServerAnswers ==
  \E req \in network :
    /\ req.state = "sent"
    /\ \E ok \in BOOLEAN :
         /\ network' = (network \ {req})
                         \cup {[req EXCEPT !.state = IF ok THEN "ok" ELSE "failed"]}
         /\ toolSettings' = IF ok THEN req.body ELSE toolSettings
    /\ UNCHANGED << reload, clock >>
    /\ ReloadFrame

Answered(from) == {req \in network : req.from = from /\ req.state # "sent"}

\* onUnload after its await: it logs the outcome and returns
OnUnloadResume ==
  /\ reload.onUnload = "awaiting"
  /\ \E req \in Answered("onUnload") :
       reload' = [reload EXCEPT !.onUnload = IF req.state = "ok" THEN "reset" ELSE "failed"]
  /\ UNCHANGED << network, toolSettings, clock >>
  /\ ReloadFrame

\* onLoad after the await of its fetch: it logs the outcome and goes on to
\* register its handlers
OnLoadResume ==
  /\ reload.onLoad = "awaiting"
  /\ \E req \in Answered("onLoad") :
       reload' = [reload EXCEPT !.onLoad = IF req.state = "ok" THEN "synchronized" ELSE "failed"]
  /\ UNCHANGED << network, toolSettings, clock >>
  /\ ReloadFrame

NextReload ==
  \/ OnUnloadCall
  \/ OnLoadCall
  \/ Tick
  \/ OnLoadTimer
  \/ ServerAnswers
  \/ OnUnloadResume
  \/ OnLoadResume

SpecReload == InitReload /\ [][NextReload]_vars

\* both have finished, each with its settings update stored
BothUpdated == reload.onUnload = "reset" /\ reload.onLoad = "synchronized"

(***************************************************************************)
(* C30: in a hot reload, once onUnload and onLoad have both finished (each *)
(* update stored), the host's tool settings are those onLoad wrote (source *)
(* the plugin id, count the pocket count) and not the reset onUnload wrote *)
(* (source null, count 0), whatever the order of the two updates.          *)
(***************************************************************************)
C30_LoadSettingsWin ==
  BothUpdated =>
    /\ toolSettings = LoadTool(reload)
    /\ toolSettings.source = PluginId /\ toolSettings.count = reload.pockets

\* what holds: the settings are those of one of the two updates
C30_OneOfTheTwoUpdates ==
  BothUpdated => toolSettings \in {LoadTool(reload), ResetTool}

=============================================================================
